---- MODULE Spec2Model ----
(***************************************************************************)
(* A model of qx (rwillians/qx): the statement builders of src/index.ts,   *)
(* the SQL compiler and the Bun SQLite adapter of src/bun-sqlite.ts, and   *)
(* the logging wrapper withLoggedQuery.                                    *)
(*                                                                         *)
(* Representation.                                                         *)
(*  - A JavaScript string that ends up in SQL text is a sequence of atoms  *)
(*    (a keyword chunk, a quote, a "?" placeholder, a letter, ...); string *)
(*    concatenation is \o and Array.prototype.join is join(_, _).          *)
(*  - A JavaScript value that is not a plain object is a record carrying   *)
(*    the field js (its kind) and, where it has one, v (its payload).      *)
(*  - A plain object is a record whose fields are the object's keys, so    *)
(*    that the `'key' in obj` probes of the type guards are DOMAIN tests.  *)
(*  - An object used as an ordered map (Record<string, Column>) is the     *)
(*    sequence of its <<key, value>> entries in Object.entries order.      *)
(***************************************************************************)
EXTENDS Integers, Sequences, FiniteSets, TLC

VARIABLES
  \* the select model
  query,      \* the query of the QueryBuilder at the end of the chain
  wheres,     \* what the callbacks of the where calls returned, in call order
  stmt,       \* the statement handed to the adapter
  out,        \* what the compiler returned for it
  \* the transaction model
  conn,       \* the SQLite connection: open transaction, written statements
  work,       \* the async function passed to transaction()
  tasks,      \* the microtask queue
  executed,   \* the statements run on the connection, in order
  txPromise,  \* the promise returned by transaction()
  \* the logging model
  lq,         \* the running call of withLoggedQuery: its arguments and phase
  events,     \* the calls of the logger hooks and of fn, in order
  promise,    \* the promise returned by withLoggedQuery
  \* the insert model
  ins,        \* the InsertBuilder: its table and rows
  insOut,     \* what InsertBuilder.insert did
  \* the codec model
  codec,      \* an integer, its encoded and its decoded value
  \* the builders as objects
  heap,       \* the objects and arrays created so far
  builders,   \* the QueryBuilders obtained so far
  ran,        \* the last statement handed to db.query
  \* the compiler's arrays
  arrays,     \* the params arrays: of EMPTY_RENDER_RESULT, then of each call
  calls,      \* the calls of the compiler: statement, result, params array
  \* the expression model
  ex,         \* an expression tree and what the compiler returned for it
  \* the column definition model
  chain       \* a chain of ColumnPropsBuilder calls and where it ended

selectVars == <<query, wheres, stmt, out>>
txVars == <<conn, work, tasks, executed, txPromise>>
logVars == <<lq, events, promise>>
insertVars == <<ins, insOut>>
builderVars == <<heap, builders, ran>>
compileVars == <<arrays, calls>>

vars == <<selectVars, txVars, logVars, insertVars, codec, builderVars, compileVars, ex, chain>>

\* What the actions of one model leave unchanged.
notSelect == <<txVars, logVars, insertVars, codec, builderVars, compileVars, ex, chain>>
notTx == <<selectVars, logVars, insertVars, codec, builderVars, compileVars, ex, chain>>
notLog == <<selectVars, txVars, insertVars, codec, builderVars, compileVars, ex, chain>>
notInsert == <<selectVars, txVars, logVars, codec, builderVars, compileVars, ex, chain>>
notCodec == <<selectVars, txVars, logVars, insertVars, builderVars, compileVars, ex, chain>>
notBuilder == <<selectVars, txVars, logVars, insertVars, codec, compileVars, ex, chain>>
notCompile == <<selectVars, txVars, logVars, insertVars, codec, builderVars, ex, chain>>

notExpr == <<selectVars, txVars, logVars, insertVars, codec, builderVars, compileVars, chain>>
notChain == <<selectVars, txVars, logVars, insertVars, codec, builderVars, compileVars, ex>>

\* The expression model before an expression is written.
exprIdle == ex = [phase |-> "idle"]

\* The column definition model before a column type is picked.
chainIdle == chain = [phase |-> "idle"]

\* The compiler's arrays when the module is loaded: the empty params array
\* of EMPTY_RENDER_RESULT.
compileIdle ==
  /\ arrays = << <<>> >>
  /\ calls = <<>>

\* The codec model when no value is being converted.
codecIdle == codec = [phase |-> "idle"]

\* The logging model before withLoggedQuery is called.
logIdle ==
  /\ lq = [phase |-> "idle"]
  /\ events = <<>>
  /\ promise = [state |-> "none"]

\* The transaction model before transaction() is called.
txIdle ==
  /\ conn = [inTransaction |-> FALSE, uncommitted |-> {}, rows |-> {}]
  /\ work = [len |-> 0, throws |-> FALSE, issued |-> 0, status |-> "idle"]
  /\ tasks = <<>>
  /\ executed = <<>>
  /\ txPromise = "none"

-----------------------------------------------------------------------------
(* JavaScript values *)

Undefined == [js |-> "undefined"]
Null == [js |-> "null"]
Num(n) == [js |-> "number", v |-> n]
Str(s) == [js |-> "string", v |-> s]
Bool(b) == [js |-> "boolean", v |-> b]
Date(ms) == [js |-> "date", v |-> ms]
Arr(s) == [js |-> "array", v |-> s]
BigInt(n) == [js |-> "bigint", v |-> n]

isPlainObject(value) == "js" \notin DOMAIN value

has(key, obj) == key \in DOMAIN obj

typeof(value) ==
  IF isPlainObject(value) THEN "object"
  ELSE IF value.js \in {"null", "date", "array"} THEN "object"
  ELSE value.js

\* ToBoolean, as applied by `cond ? a : b`, `if (cond)` and `a && b`.
truthy(value) ==
  IF isPlainObject(value) THEN TRUE
  ELSE CASE value.js = "undefined" -> FALSE
         [] value.js = "null" -> FALSE
         [] value.js = "boolean" -> value.v
         [] value.js = "number" -> value.v # 0
         [] value.js = "bigint" -> value.v # 0
         [] value.js = "string" -> value.v # <<>>
         [] OTHER -> TRUE

\* a ?? b
nullish(value) == value = Undefined \/ value = Null

coalesce(a, b) == IF nullish(a) THEN b ELSE a

-----------------------------------------------------------------------------
(* Strings as sequences of atoms *)

RECURSIVE join(_, _)
join(frags, sep) ==
  IF frags = <<>> THEN <<>>
  ELSE IF Len(frags) = 1 THEN Head(frags)
  ELSE Head(frags) \o sep \o join(Tail(frags), sep)

Upper == {"A", "B", "I"}

toLowerCase(letter) ==
  CASE letter = "A" -> "a"
    [] letter = "B" -> "b"
    [] letter = "I" -> "i"
    [] OTHER -> letter

RECURSIVE snakeCase(_)
snakeCase(str) ==
  IF str = <<>> THEN <<>>
  ELSE (IF Head(str) \in Upper THEN <<"_", toLowerCase(Head(str))>> ELSE <<Head(str)>>)
       \o snakeCase(Tail(str))

\* `${value}` for a string or undefined.
template(value) == IF value = Undefined THEN <<"undefined">> ELSE value.v

-----------------------------------------------------------------------------
(* Expression builders and type guards (src/index.ts) *)

expr_eq(lhs, rhs) == [lhs |-> lhs, op |-> "=", rhs |-> rhs]
expr_gt(lhs, rhs) == [lhs |-> lhs, op |-> ">", rhs |-> rhs]
expr_like(lhs, rhs) == [lhs |-> lhs, op |-> "LIKE", rhs |-> rhs]
expr_in(lhs, rhs) == [lhs |-> lhs, op |-> "IN", rhs |-> rhs]
expr_notIn(lhs, rhs) == [lhs |-> lhs, op |-> "NOT IN", rhs |-> rhs]
expr_is(lhs, rhs) == [lhs |-> lhs, op |-> "IS", rhs |-> rhs]
expr_isNot(lhs, rhs) == [lhs |-> lhs, op |-> "IS NOT", rhs |-> rhs]
expr_and(exprs) == [and |-> exprs]
expr_or(exprs) == [or |-> exprs]
expr_not(e) == [not |-> e]
expr_asc(e) == <<e, "ASC">>
expr_desc(e) == <<e, "DESC">>

is_binaryOp(e) == isPlainObject(e) /\ has("op", e) /\ has("lhs", e) /\ has("rhs", e)
is_and(e) == isPlainObject(e) /\ has("and", e)
is_or(e) == isPlainObject(e) /\ has("or", e)
is_not(e) == isPlainObject(e) /\ has("not", e)
is_boolean(e) == typeof(e) = "boolean"
is_date(e) == ~isPlainObject(e) /\ e.js = "date"
is_null(e) == e = Null
is_number(e) == typeof(e) = "number"
is_string(e) == typeof(e) = "string"
is_literal(e) == e = Null \/ is_date(e) \/ typeof(e) \in {"boolean", "number", "string"}
is_column(e) == isPlainObject(e) /\ has("type", e) /\ has("schema", e)

-----------------------------------------------------------------------------
(* Codecs (src/bun-sqlite.ts) *)

DATETIME_encode(value) == Num(value.v)

-----------------------------------------------------------------------------
(* Rendering (src/bun-sqlite.ts) *)

EMPTY_RENDER_RESULT == [frags |-> <<>>, params |-> <<>>]

\* A thrown Error, propagated to the caller in place of a result.
Throw(msg) == [throw |-> msg]

threw(r) == has("throw", r)

\* collect with the new params put in front of the accumulated ones.
collect_paramsInFront(acc, result) ==
  IF threw(acc) THEN acc
  ELSE IF threw(result) THEN result
  ELSE [frags |-> acc.frags \o result.frags, params |-> result.params \o acc.params]

\* collect(fn)(acc, value), where result = fn(value).
collect(acc, result) ==
  IF threw(acc) THEN acc
  ELSE IF threw(result) THEN result
  ELSE [frags |-> acc.frags \o result.frags, params |-> acc.params \o result.params]

\* glue(fn)(...args), where result = fn(...args).
glue(result) ==
  IF threw(result) THEN result
  ELSE [frags |-> <<join(result.frags, <<>>)>>, params |-> result.params]

render_ref(value) == <<"\"">> \o value \o <<"\"">>

render_expr_column(col) ==
  glue([frags |-> <<render_ref(col.table) \o <<".">> \o render_ref(snakeCase(col.name))>>,
        params |-> <<>>])

render_expr_boolean(value) ==
  glue([frags |-> <<IF value.v THEN <<"TRUE">> ELSE <<"FALSE">>>>, params |-> <<>>])

render_expr_date(value) == glue([frags |-> << <<"?">> >>, params |-> <<DATETIME_encode(value)>>])

render_expr_null == glue([frags |-> << <<"NULL">> >>, params |-> <<>>])

render_expr_number(value) == glue([frags |-> << <<"?">> >>, params |-> <<value>>])

render_expr_string(value) == glue([frags |-> << <<"?">> >>, params |-> <<value>>])

render_expr_literal(value) ==
  glue(IF is_null(value) THEN render_expr_null
       ELSE IF is_boolean(value) THEN render_expr_boolean(value)
       ELSE IF is_date(value) THEN render_expr_date(value)
       ELSE IF is_number(value) THEN render_expr_number(value)
       ELSE IF is_string(value) THEN render_expr_string(value)
       ELSE Throw("Unsupported literal expression"))

RECURSIVE render_expr_any(_)
RECURSIVE render_expr_binaryOp(_)
RECURSIVE render_expr_and(_)
RECURSIVE render_expr_or(_)
RECURSIVE render_expr_not(_)
RECURSIVE render_expr_array(_)
RECURSIVE reduce_expr_any(_, _)

\* values.reduce(collect(render.expr.any), acc)
reduce_expr_any(values, acc) ==
  IF values = <<>> THEN acc
  ELSE reduce_expr_any(Tail(values), collect(acc, render_expr_any(Head(values))))

render_expr_any(value) ==
  glue(IF is_binaryOp(value) THEN render_expr_binaryOp(value)
       ELSE IF is_and(value) THEN render_expr_and(value)
       ELSE IF is_or(value) THEN render_expr_or(value)
       ELSE IF is_not(value) THEN render_expr_not(value)
       ELSE IF is_column(value) THEN render_expr_column(value)
       ELSE IF is_literal(value) THEN render_expr_literal(value)
       ELSE Throw("Unsupported expression type"))

render_expr_binaryOp(value) ==
  LET lhs == render_expr_any(value.lhs)
      rhs == IF ~isPlainObject(value.rhs) /\ value.rhs.js = "array"
             THEN render_expr_array(value.rhs.v)
             ELSE render_expr_any(value.rhs)
  IN glue(IF threw(lhs) THEN lhs
          ELSE IF threw(rhs) THEN rhs
          ELSE [frags |-> << <<"(">> >> \o lhs.frags \o << <<" ", value.op, " ">> >> \o rhs.frags \o << <<")">> >>,
                params |-> lhs.params \o rhs.params])

render_expr_and(value) ==
  LET inner == reduce_expr_any(value.and, EMPTY_RENDER_RESULT)
  IN glue(IF threw(inner) THEN inner
          ELSE [frags |-> << <<"(">>, join(inner.frags, <<" AND ">>), <<")">> >>,
                params |-> inner.params])

\* render.expr.or that joins its children without the parentheses around
\* them.
render_expr_or_bare(value) ==
  LET inner == reduce_expr_any(value.or, EMPTY_RENDER_RESULT)
  IN glue(IF threw(inner) THEN inner
          ELSE [frags |-> << join(inner.frags, <<" OR ">>) >>,
                params |-> inner.params])

render_expr_or(value) ==
  LET inner == reduce_expr_any(value.or, EMPTY_RENDER_RESULT)
  IN glue(IF threw(inner) THEN inner
          ELSE [frags |-> << <<"(">>, join(inner.frags, <<" OR ">>), <<")">> >>,
                params |-> inner.params])

render_expr_not(value) ==
  LET inner == render_expr_any(value.not)
  IN glue(IF threw(inner) THEN inner
          ELSE [frags |-> << <<"NOT ">> >> \o inner.frags, params |-> inner.params])

render_expr_array(values) ==
  LET inner == reduce_expr_any(values, EMPTY_RENDER_RESULT)
  IN glue(IF threw(inner) THEN inner
          ELSE [frags |-> << <<"(">>, join(inner.frags, <<", ">>), <<")">> >>,
                params |-> inner.params])

\* selection is the sequence of <<alias, col>> entries of the projection.
render_selection(selection) ==
  LET frags == [i \in 1..Len(selection) |->
                  join(render_expr_column(selection[i][2]).frags, <<>>)
                  \o <<" AS ">> \o render_ref(selection[i][1])]
  IN glue([frags |-> <<join(frags, <<", ">>)>>, params |-> <<>>])

\* pair is the tuple [expr, dir].
render_orderBy(pair) ==
  LET r == render_expr_any(pair[1])
  IN IF threw(r) THEN r
     ELSE [frags |-> <<join(r.frags \o << <<pair[2]>> >>, <<" ">>)>>, params |-> r.params]

render_join(j) ==
  LET result == render_expr_any(j.on)
  IN glue(IF threw(result) THEN result
          ELSE [frags |-> << <<" ">>, <<j.type>>, <<" ">>, render_ref(j.table), <<" AS ">>,
                             render_ref(j.alias), <<" ON ">> >> \o result.frags,
                params |-> result.params])

RECURSIVE reduce_join(_, _)
reduce_join(joins, acc) ==
  IF joins = <<>> THEN acc
  ELSE reduce_join(Tail(joins), collect(acc, render_join(Head(joins))))

RECURSIVE reduce_orderBy(_, _)
reduce_orderBy(pairs, acc) ==
  IF pairs = <<>> THEN acc
  ELSE reduce_orderBy(Tail(pairs), collect(acc, render_orderBy(Head(pairs))))

\* op.registry[op.from]
registry_get(registry, alias) ==
  IF alias \in DOMAIN registry THEN Str(registry[alias]) ELSE Undefined

ddl_select(op) ==
  LET joins == IF truthy(op.joins) /\ Len(op.joins.v) > 0
               THEN reduce_join(op.joins.v, EMPTY_RENDER_RESULT)
               ELSE EMPTY_RENDER_RESULT
      where == IF truthy(op.where) THEN render_expr_any(op.where) ELSE EMPTY_RENDER_RESULT
      orderBy == IF truthy(op.orderBy) /\ Len(op.orderBy.v) > 0
                 THEN reduce_orderBy(op.orderBy.v, EMPTY_RENDER_RESULT)
                 ELSE EMPTY_RENDER_RESULT
      limit == IF op.limit # Undefined
               THEN [frags |-> << <<" LIMIT ">>, <<"?">> >>, params |-> <<op.limit>>]
               ELSE EMPTY_RENDER_RESULT
      offset == IF op.offset # Undefined
                THEN [frags |-> << <<" OFFSET ">>, <<"?">> >>, params |-> <<op.offset>>]
                ELSE EMPTY_RENDER_RESULT
  IN IF threw(joins) THEN joins
     ELSE IF threw(where) THEN where
     ELSE IF threw(orderBy) THEN orderBy
     ELSE LET frags == << <<"SELECT ">>,
                          join(render_selection(op.select).frags, <<", ">>),
                          <<" FROM ">>,
                          render_ref(template(registry_get(op.registry, op.from))),
                          <<" AS ">>,
                          render_ref(op.from) >>
                       \o joins.frags
                       \o << IF Len(where.frags) > 0 THEN <<" WHERE ">> ELSE <<>> >>
                       \o where.frags
                       \o << IF Len(orderBy.frags) > 0
                             THEN <<" ORDER BY ">> \o join(orderBy.frags, <<", ">>)
                             ELSE <<>> >>
                       \o limit.frags
                       \o offset.frags
                       \o << <<";">> >>
          IN [sql |-> join(frags, <<>>),
              params |-> joins.params \o where.params \o limit.params \o offset.params]

-----------------------------------------------------------------------------
(* Table definition (src/index.ts) *)

\* { ...obj, ...patch }
spread(obj, patch) == patch @@ obj

\* obj[key] for an ordered map given as its entries.
RECURSIVE get(_, _)
get(entries, key) ==
  IF entries = <<>> THEN Undefined
  ELSE IF entries[Len(entries)][1] = key THEN entries[Len(entries)][2]
  ELSE get(SubSeq(entries, 1, Len(entries) - 1), key)

\* Object.keys(obj)
keys(entries) == [i \in 1..Len(entries) |-> entries[i][1]]

ColumnPropsBuilder_autoincrement(props) ==
  IF props.type # "INTEGER" THEN Throw("Autoincrement can only be set on integer columns")
  ELSE spread(props, [autoincrement |-> TRUE])

ColumnPropsBuilder_default(props, value) == spread(props, [default |-> value])

ColumnPropsBuilder_nullable(props) ==
  IF has("primaryKey", props) THEN Throw("Cannot make a primary key column nullable")
  ELSE spread(props, [nullable |-> TRUE, schema |-> <<"nullable", props.schema>>])

\* primaryKey that does not look at nullable.
ColumnPropsBuilder_primaryKey_unchecked(props) == spread(props, [primaryKey |-> TRUE])

ColumnPropsBuilder_primaryKey(props) ==
  IF has("nullable", props) THEN Throw("Cannot make a nullable column a primary key")
  ELSE spread(props, [primaryKey |-> TRUE])

ColumnPropsBuilder_unique(props) ==
  IF has("primaryKey", props) THEN Throw("Primary key columns are already unique")
  ELSE spread(props, [unique |-> TRUE])

\* u.lte(n, max)
lte(n, max) == IF n.v > max.v THEN Throw("Must be at most max") ELSE n

types_binary == [type |-> "BINARY", schema |-> <<"instanceOf">>]
types_boolean == [type |-> "BOOLEAN", schema |-> <<"boolean">>]
types_float == [type |-> "FLOAT", schema |-> <<"number">>]
types_integer == [type |-> "INTEGER", schema |-> <<"integer">>]

\* types.string({ size }); size is Undefined when the option is not given.
types_string(size) ==
  LET n == IF size = Undefined THEN Num(255) ELSE size
      max == lte(n, Num(255))
  IN IF threw(max) THEN max
     ELSE [type |-> "VARCHAR", schema |-> <<"string", max>>, size |-> n]
types_datetime == [type |-> "DATETIME", schema |-> <<"date">>]
types_text == [type |-> "TEXT", schema |-> <<"string">>]

\* shape is the sequence of <<cname, props>> entries returned by shapeFn.
defineTable(tname, shape) ==
  [name |-> tname,
   columns |-> [i \in 1..Len(shape) |->
                  <<shape[i][1], spread(shape[i][2], [name |-> shape[i][1], table |-> tname])>>]]

\* table.as(alias); the symbol keys TABLE_NAME and TABLE_ALIAS are fields of
\* their own, the column keys are the entries of `columns`.
aliasedTableFn(table, alias) ==
  [TABLE_NAME |-> table.name,
   TABLE_ALIAS |-> alias,
   columns |-> [i \in 1..Len(table.columns) |->
                  <<table.columns[i][1], spread(table.columns[i][2], [table |-> alias])>>]]

\* The tables of src/play.ts and src/experimental-migration.ts.
backups ==
  defineTable(<<"backups">>,
    << << <<"id">>, ColumnPropsBuilder_primaryKey(ColumnPropsBuilder_autoincrement(types_integer)) >>,
       << <<"parent", "I", "d">>, ColumnPropsBuilder_nullable(types_integer) >>,
       << <<"path">>, types_text >> >>)

migrations ==
  defineTable(<<"migrations">>,
    << << <<"id">>, ColumnPropsBuilder_primaryKey(types_text) >>,
       << <<"migrated", "A", "t">>, types_datetime >> >>)

-----------------------------------------------------------------------------
(* Select statement builder (src/index.ts) *)

\* u.mapValues(query.registry, table => table[TABLE_NAME])
toSelectStatement(q) ==
  spread(q, [registry |-> [a \in DOMAIN q.registry |-> q.registry[a].TABLE_NAME]])

from(table) ==
  [registry |-> (table.TABLE_ALIAS :> table),
   from |-> table.TABLE_ALIAS,
   select |-> table.columns,
   joins |-> Undefined,
   where |-> Undefined,
   orderBy |-> Undefined,
   limit |-> Undefined,
   offset |-> Undefined]

\* on, value, orderBy and select are what the callback returned.
QueryBuilder_innerJoin(q, table, on) ==
  LET registry == (table.TABLE_ALIAS :> table) @@ q.registry
      j == [type |-> "INNER JOIN", table |-> table.TABLE_NAME, alias |-> table.TABLE_ALIAS, on |-> on]
  IN spread(q, [registry |-> registry,
                joins |-> Arr((IF q.joins = Undefined THEN <<>> ELSE q.joins.v) \o <<j>>)])

\* limit that keeps the where and the joins out of the new builder.
QueryBuilder_limit_fresh(q, n) == spread(q, [limit |-> n, where |-> Undefined, joins |-> Undefined])

QueryBuilder_limit(q, n) == spread(q, [limit |-> n])

QueryBuilder_offset(q, n) == spread(q, [offset |-> n])

QueryBuilder_orderBy(q, orderBy) == spread(q, [orderBy |-> orderBy])

QueryBuilder_select(q, select) == spread(q, [select |-> select])

\* where that nests an existing And instead of appending to its list.
QueryBuilder_where_nesting(q, value) ==
  LET where == IF q.where = Undefined THEN value
               ELSE expr_and(<<q.where, value>>)
  IN spread(q, [where |-> where])

QueryBuilder_where(q, value) ==
  LET where == IF q.where = Undefined THEN value
               ELSE IF is_and(q.where) THEN expr_and(q.where.and \o <<value>>)
               ELSE expr_and(<<q.where, value>>)
  IN spread(q, [where |-> where])

-----------------------------------------------------------------------------
(* Inputs of the select model *)

MaxWhere == 3
MaxJoins == 2

b1 == aliasedTableFn(backups, <<"b1">>)
b2 == aliasedTableFn(backups, <<"b2">>)
m == aliasedTableFn(migrations, <<"m">>)
\* An aliased table that no query of the model registers.
zz == aliasedTableFn(backups, <<"zz">>)

id(t) == get(t.columns, <<"id">>)
parentId(t) == get(t.columns, <<"parent", "I", "d">>)
path(t) == get(t.columns, <<"path">>)

\* What a where callback may return.
WherePool ==
  { expr_eq(id(b1), Num(2)),
    expr_or(<<expr_eq(parentId(b1), Num(1)), expr_is(parentId(b1), Null)>>),
    expr_and(<<expr_gt(id(b1), Date(7)), expr_not(expr_like(path(b1), Str(<<"%a">>)))>>),
    Bool(FALSE),
    expr_eq(id(zz), Num(1)),
    [foo |-> Num(1)] }

JoinTables == {b2, m}

\* What the on callback of innerJoin may return for the joined table t.
OnPool(t) ==
  IF t = b2 THEN { expr_eq(id(b2), parentId(b1)) }
  ELSE { expr_in(id(t), Arr(<<Str(<<"k">>), Str(<<"l">>)>>)) }

OrderByPool ==
  { Arr(<<expr_asc(expr_eq(path(b1), Str(<<"x">>))), expr_desc(id(b1))>>) }

SelectPool == { << << <<"aid">>, id(b1) >>, << <<"pid">>, parentId(b1) >> >> }

LimitPool == { Num(2) }
OffsetPool == { Num(0) }

\* Statements a caller hands to the adapter without going through the builder.
RawStatements ==
  { spread(toSelectStatement(from(b1)), [registry |-> (<<"b2">> :> <<"backups">>)]) }

-----------------------------------------------------------------------------
(* The select model: one builder chain from(b1)...., then its execution *)

NotRun == [state |-> "none"]

selectIdle ==
  /\ query = from(b1)
  /\ wheres = <<>>
  /\ stmt = NotRun
  /\ out = NotRun

\* The builders as objects before from() is called.
builderIdle ==
  /\ heap = <<>>
  /\ builders = <<>>
  /\ ran = NotRun

\* The insert model before into() is called.
insertIdle ==
  /\ ins = [phase |-> "idle"]
  /\ insOut = NotRun

Init ==
  /\ selectIdle
  /\ txIdle
  /\ logIdle
  /\ insertIdle
  /\ codecIdle
  /\ builderIdle
  /\ compileIdle
  /\ exprIdle
  /\ chainIdle

innerJoin ==
  /\ out = NotRun
  /\ Len(IF query.joins = Undefined THEN <<>> ELSE query.joins.v) < MaxJoins
  /\ \E t \in JoinTables : \E on \in OnPool(t) :
       query' = QueryBuilder_innerJoin(query, t, on)
  /\ UNCHANGED <<wheres, stmt, out>>
  /\ UNCHANGED notSelect

limit ==
  /\ out = NotRun
  /\ \E n \in LimitPool : query' = QueryBuilder_limit(query, n)
  /\ UNCHANGED <<wheres, stmt, out>>
  /\ UNCHANGED notSelect

offset ==
  /\ out = NotRun
  /\ \E n \in OffsetPool : query' = QueryBuilder_offset(query, n)
  /\ UNCHANGED <<wheres, stmt, out>>
  /\ UNCHANGED notSelect

orderBy ==
  /\ out = NotRun
  /\ \E o \in OrderByPool : query' = QueryBuilder_orderBy(query, o)
  /\ UNCHANGED <<wheres, stmt, out>>
  /\ UNCHANGED notSelect

select ==
  /\ out = NotRun
  /\ \E sel \in SelectPool : query' = QueryBuilder_select(query, sel)
  /\ UNCHANGED <<wheres, stmt, out>>
  /\ UNCHANGED notSelect

where ==
  /\ out = NotRun
  /\ Len(wheres) < MaxWhere
  /\ \E value \in WherePool :
       /\ query' = QueryBuilder_where(query, value)
       /\ wheres' = Append(wheres, value)
  /\ UNCHANGED <<stmt, out>>
  /\ UNCHANGED notSelect

\* QueryBuilder.all -> BunSQLite.query -> ddl.select
all ==
  /\ out = NotRun
  /\ stmt' = toSelectStatement(query)
  /\ out' = ddl_select(toSelectStatement(query))
  /\ UNCHANGED <<query, wheres>>
  /\ UNCHANGED notSelect

\* BunSQLite.query called with a statement the caller built itself.
BunSQLite_query ==
  /\ out = NotRun
  /\ query = from(b1)
  /\ \E op \in RawStatements :
       /\ stmt' = op
       /\ out' = ddl_select(op)
  /\ UNCHANGED <<query, wheres>>
  /\ UNCHANGED notSelect

Next ==
  \/ innerJoin
  \/ limit
  \/ offset
  \/ orderBy
  \/ select
  \/ where
  \/ all
  \/ BunSQLite_query

Spec == Init /\ [][Next]_vars

-----------------------------------------------------------------------------
(* Operators used to state the properties *)

\* The number of occurrences of an atom in a text.
count(atom, text) == Len(SelectSeq(text, LAMBDA a : a = atom))

\* The literals of an expression that are bound as parameters, in a
\* left-to-right depth-first walk of the tree.
RECURSIVE literalsOf(_)
RECURSIVE literalsOfAll(_)
literalsOf(e) ==
  IF ~isPlainObject(e)
  THEN CASE e.js \in {"number", "string"} -> <<e>>
         [] e.js = "date" -> <<Num(e.v)>>
         [] e.js = "array" -> literalsOfAll(e.v)
         [] OTHER -> <<>>
  ELSE IF has("lhs", e) THEN literalsOf(e.lhs) \o literalsOf(e.rhs)
  ELSE IF has("and", e) THEN literalsOfAll(e.and)
  ELSE IF has("or", e) THEN literalsOfAll(e.or)
  ELSE IF has("not", e) THEN literalsOf(e.not)
  ELSE <<>>

literalsOfAll(es) ==
  IF es = <<>> THEN <<>> ELSE literalsOf(Head(es)) \o literalsOfAll(Tail(es))

\* The table aliases of the columns that occur in an expression.
RECURSIVE aliasesOf(_)
RECURSIVE aliasesOfAll(_)
aliasesOf(e) ==
  IF ~isPlainObject(e)
  THEN (IF e.js = "array" THEN aliasesOfAll(e.v) ELSE {})
  ELSE IF has("lhs", e) THEN aliasesOf(e.lhs) \cup aliasesOf(e.rhs)
  ELSE IF has("and", e) THEN aliasesOfAll(e.and)
  ELSE IF has("or", e) THEN aliasesOfAll(e.or)
  ELSE IF has("not", e) THEN aliasesOf(e.not)
  ELSE IF has("table", e) THEN {e.table}
  ELSE {}

aliasesOfAll(es) ==
  IF es = <<>> THEN {} ELSE aliasesOf(Head(es)) \cup aliasesOfAll(Tail(es))

listOf(field) == IF field = Undefined THEN <<>> ELSE field.v

\* The aliases of every column used by a query or statement.
aliasesUsed(q) ==
  aliasesOf(q.where)
  \cup aliasesOfAll([i \in 1..Len(listOf(q.joins)) |-> listOf(q.joins)[i].on])
  \cup aliasesOfAll([i \in 1..Len(listOf(q.orderBy)) |-> listOf(q.orderBy)[i][1]])
  \cup aliasesOfAll([i \in 1..Len(q.select) |-> q.select[i][2]])

isClauseKeyword(atom) ==
  atom \in {"SELECT ", " FROM ", "INNER JOIN", " WHERE ", " ORDER BY ", " LIMIT ", " OFFSET "}

clauses(text) == SelectSeq(text, isClauseKeyword)

\* The clause keywords a statement is to compile to, with or without WHERE.
expectedClauses(op, withWhere) ==
  <<"SELECT ", " FROM ">>
  \o [i \in 1..Len(listOf(op.joins)) |-> "INNER JOIN"]
  \o (IF withWhere THEN <<" WHERE ">> ELSE <<>>)
  \o (IF Len(listOf(op.orderBy)) > 0 THEN <<" ORDER BY ">> ELSE <<>>)
  \o (IF op.limit # Undefined THEN <<" LIMIT ">> ELSE <<>>)
  \o (IF op.offset # Undefined THEN <<" OFFSET ">> ELSE <<>>)

\* The positions of the JOIN keywords in a text.
joinPositions(text) ==
  SelectSeq([i \in 1..Len(text) |-> i], LAMBDA i : text[i] = "INNER JOIN")

compiled == has("sql", out)

-----------------------------------------------------------------------------
(* Properties of the select model *)

\* C1: the number of `?` placeholders of a compiled statement equals the
\* number of its params, for any joins, where, orderBy, limit and offset.
C1_PlaceholderParity ==
  compiled => count("?", out.sql) = Len(out.params)

C8_MissingFromAliasFails ==
  (stmt # NotRun /\ stmt.from \notin DOMAIN stmt.registry) => threw(out)

\* C9: every column of the where, the join-on, the orderBy and the
\* projection of a built query has an alias that is a key of the registry.
C9_ColumnsAreRegistered ==
  aliasesUsed(query) \subseteq DOMAIN query.registry

\* C10: where composition.  No where call leaves the where unset, one call
\* makes its predicate the where, and from the second call on the where is
\* the flat And of the first predicate (its own list, when it is an And)
\* followed by the later predicates in call order.
C10_WhereComposition ==
  /\ wheres = <<>> => query.where = Undefined
  /\ Len(wheres) = 1 => query.where = wheres[1]
  /\ Len(wheres) >= 2 =>
       query.where = [and |-> (IF isPlainObject(wheres[1]) /\ has("and", wheres[1])
                                THEN wheres[1].and ELSE <<wheres[1]>>)
                               \o Tail(wheres)]
  /\ (Len(wheres) >= 2 /\ \A i \in 1..Len(wheres) : ~(isPlainObject(wheres[i]) /\ has("and", wheres[i])))
       => query.where = [and |-> wheres]

C10_Witness ==
  /\ Len(wheres) = 3
  /\ \A i \in 1..3 : ~is_and(wheres[i])
  /\ wheres[1] # wheres[2]
  /\ query.where = [and |-> wheres]

-----------------------------------------------------------------------------
(* The transaction model (BunSQLite.transaction, src/bun-sqlite.ts).       *)
(*                                                                         *)
(* conn.transaction(fn) of bun:sqlite returns a function that runs BEGIN,  *)
(* calls fn, runs COMMIT when fn returned and ROLLBACK when fn threw.  The *)
(* work function is async: a call of it runs up to its first await and     *)
(* returns a promise.  Each statement of work goes through an adapter      *)
(* method and withLoggedQuery, which runs the statement in the callback of *)
(* Promise.resolve().then(...), that is, in a later microtask.             *)
(***************************************************************************)

MaxStatements == 3

StatementKinds == {"insert", "query", "delete", "createTable"}

\* BEGIN
conn_begin(c) == [c EXCEPT !.inTransaction = TRUE]

\* COMMIT
conn_commit(c) ==
  [inTransaction |-> FALSE, uncommitted |-> {}, rows |-> c.rows \cup c.uncommitted]

\* conn.prepare(sql).run(...params): in autocommit mode unless a
\* transaction is open.
conn_run(c, n) ==
  IF c.inTransaction THEN [c EXCEPT !.uncommitted = @ \cup {n}]
  ELSE [c EXCEPT !.rows = @ \cup {n}]

\* work calls an adapter method: the statement is compiled and logged, its
\* execution is queued as a microtask, and work awaits the result.
work_issue(w, kind) ==
  [w EXCEPT !.issued = @ + 1, !.status = "awaiting"]

\* work runs off its end: it returns, or throws.
work_finish(w) ==
  [w EXCEPT !.status = IF w.throws THEN "rejected" ELSE "resolved"]

\* transaction(fn): BEGIN, the call of fn up to its first await, COMMIT.
BunSQLite_transaction ==
  /\ txPromise = "none"
  /\ \E len \in 0..MaxStatements : \E throws \in BOOLEAN : \E kind \in StatementKinds :
       LET w == [len |-> len, throws |-> throws, issued |-> 0, status |-> "running"]
       IN /\ work' = IF len = 0 THEN work_finish(w) ELSE work_issue(w, kind)
          /\ tasks' = IF len = 0 THEN <<>> ELSE <<[n |-> 1, kind |-> kind]>>
  /\ conn' = conn_commit(conn_begin(conn))
  /\ txPromise' = "pending"
  /\ UNCHANGED executed
  /\ UNCHANGED notTx

\* The callback `() => fn(sql, params)` of withLoggedQuery: the statement
\* runs on the connection.
withLoggedQuery_then ==
  /\ tasks # <<>>
  /\ conn' = conn_run(conn, Head(tasks).n)
  /\ executed' = Append(executed, [n |-> Head(tasks).n, kind |-> Head(tasks).kind,
                                   inTransaction |-> conn.inTransaction])
  /\ tasks' = Tail(tasks)
  /\ work' = [work EXCEPT !.status = "ready"]
  /\ UNCHANGED txPromise
  /\ UNCHANGED notTx

\* work resumes after an await: it issues its next statement or finishes.
work_resume ==
  /\ work.status = "ready"
  /\ IF work.issued < work.len
     THEN \E kind \in StatementKinds :
            /\ work' = work_issue(work, kind)
            /\ tasks' = Append(tasks, [n |-> work.issued + 1, kind |-> kind])
     ELSE /\ work' = work_finish(work)
          /\ tasks' = tasks
  /\ UNCHANGED <<conn, executed, txPromise>>
  /\ UNCHANGED notTx

\* The promise returned by transaction() settles as the promise of work.
transaction_settle ==
  /\ txPromise = "pending"
  /\ work.status \in {"resolved", "rejected"}
  /\ txPromise' = work.status
  /\ UNCHANGED <<conn, work, tasks, executed>>
  /\ UNCHANGED notTx

TxInit ==
  /\ selectIdle
  /\ txIdle
  /\ logIdle
  /\ insertIdle
  /\ codecIdle
  /\ builderIdle
  /\ compileIdle
  /\ exprIdle
  /\ chainIdle

TxNext ==
  \/ BunSQLite_transaction
  \/ withLoggedQuery_then
  \/ work_resume
  \/ transaction_settle

TxSpec == TxInit /\ [][TxNext]_vars

\* C3: every statement that work executes runs inside the transaction, and
\* when the work rejects none of its statements persists.
C3_TransactionIsAtomic ==
  /\ \A i \in 1..Len(executed) : executed[i].inTransaction
  /\ txPromise = "rejected" => conn.rows = {}

-----------------------------------------------------------------------------
(* The logging model (withLoggedQuery, src/index.ts).                      *)
(*                                                                         *)
(* A logger is the console logger of src/console-logger.ts, whose hooks    *)
(* throw when a param is not renderable, or a logger that records the call *)
(* and returns.  fn returns a value, throws, or returns a promise that     *)
(* fulfils or rejects later.                                               *)
(***************************************************************************)

MaxLoggers == 2

\* A Uint8Array, the value of a BINARY column.
Bytes == [js |-> "bytes", v |-> <<1>>]

\* u.wrap
wrap(value) == IF ~isPlainObject(value) /\ value.js = "array" THEN value.v ELSE <<value>>

Logger(n, kind) == [id |-> n, kind |-> kind]

LoggerKinds == {"console", "recording"}

LoggerLists ==
  UNION { [1..n -> LoggerKinds] : n \in 0..MaxLoggers }

\* The `logger` argument: one logger, or an array of loggers.
LoggerArgs ==
  { Logger(1, kind) : kind \in LoggerKinds }
  \cup { Arr([i \in DOMAIN kinds |-> Logger(i, kinds[i])]) : kinds \in LoggerLists }

DataPool ==
  { [sql |-> <<"DELETE FROM ">>, params |-> Arr(<<Num(2)>>)],
    [sql |-> <<"INSERT INTO ">>, params |-> Arr(<<Bytes, Null>>)] }

FnPool ==
  { [mode |-> "returns", value |-> "rows"],
    [mode |-> "resolves", value |-> "rows"] }
  \cup { [mode |-> "throws", value |-> e] : e \in {"SQLiteError", "TypeError"} }
  \cup { [mode |-> "rejects", value |-> e] : e \in {"SQLiteError", "TypeError"} }

\* render of src/console-logger.ts: TRUE when it returns, FALSE when it
\* throws `Unable to render value`.
RECURSIVE console_render(_)
console_render(value) ==
  IF isPlainObject(value) THEN FALSE
  ELSE IF value.js \in {"null", "undefined", "boolean", "number", "string", "date"} THEN TRUE
  ELSE IF value.js = "array" THEN \A i \in 1..Len(value.v) : console_render(value.v[i])
  ELSE FALSE

\* Whether a hook of the logger returns (TRUE) or throws (FALSE).
logger_returns(logger, params) ==
  logger.kind = "console" => console_render(params)

\* loggers.forEach(logger => logger[hook](...args)): the calls made, up to
\* and including the first one that throws.
RECURSIVE forEach(_, _, _)
forEach(loggers, hook, args) ==
  IF loggers = <<>> THEN <<>>
  ELSE <<[hook |-> hook, logger |-> Head(loggers).id, args |-> args]>>
       \o (IF logger_returns(Head(loggers), args[2]) THEN forEach(Tail(loggers), hook, args) ELSE <<>>)

\* Whether forEach returns, i.e. no hook throws.
forEach_returns(loggers, params) ==
  \A i \in 1..Len(loggers) : logger_returns(loggers[i], params)

\* Promise.reject(error) wrapping the error in a new one.
Promise_reject_wrapped(error) == [state |-> "rejected", value |-> <<"Error", error>>]

Promise_reject(error) == [state |-> "rejected", value |-> error]

Promise_resolve(value) == [state |-> "fulfilled", value |-> value]

\* The synchronous part of withLoggedQuery: the debug hooks, then the
\* scheduling of `() => fn(sql, params)`.
withLoggedQuery ==
  /\ lq.phase = "idle"
  /\ \E logger \in LoggerArgs : \E data \in DataPool : \E fn \in FnPool :
       LET loggers == wrap(logger)
       IN /\ events' = forEach(loggers, "debug", <<data.sql, data.params>>)
          /\ IF forEach_returns(loggers, data.params)
             THEN /\ lq' = [phase |-> "scheduled", loggers |-> loggers, data |-> data, fn |-> fn]
                  /\ promise' = [state |-> "pending"]
             ELSE /\ lq' = [phase |-> "done", loggers |-> loggers, data |-> data, fn |-> fn]
                  /\ promise' = Promise_reject("Unable to render value")
  /\ UNCHANGED notLog

\* The callback `() => fn(sql, params)`.
withLoggedQuery_onFulfilled ==
  /\ lq.phase = "scheduled"
  /\ events' = Append(events, [hook |-> "fn", args |-> <<lq.data.sql, lq.data.params>>])
  /\ lq' = [lq EXCEPT !.phase = CASE lq.fn.mode = "returns" -> "passed"
                                  [] lq.fn.mode = "throws" -> "failed"
                                  [] OTHER -> "running"]
  /\ UNCHANGED promise
  /\ UNCHANGED notLog

\* The promise returned by fn settles.
fn_settles ==
  /\ lq.phase = "running"
  /\ lq' = [lq EXCEPT !.phase = IF lq.fn.mode = "resolves" THEN "passed" ELSE "failed"]
  /\ UNCHANGED <<events, promise>>
  /\ UNCHANGED notLog

\* The callback of .catch: the error hooks, then Promise.reject(error).
withLoggedQuery_onRejected ==
  /\ lq.phase = "failed"
  /\ events' = events \o forEach(lq.loggers, "error", <<lq.data.sql, lq.data.params, lq.fn.value>>)
  /\ lq' = [lq EXCEPT !.phase = "caught"]
  /\ UNCHANGED promise
  /\ UNCHANGED notLog

\* The returned promise settles as the promise of the .then().catch() chain.
withLoggedQuery_settles ==
  /\ lq.phase \in {"passed", "caught"}
  /\ promise' = IF lq.phase = "passed" THEN Promise_resolve(lq.fn.value)
                ELSE IF forEach_returns(lq.loggers, lq.data.params) THEN Promise_reject(lq.fn.value)
                ELSE Promise_reject("Unable to render value")
  /\ lq' = [lq EXCEPT !.phase = "done"]
  /\ UNCHANGED events
  /\ UNCHANGED notLog

LogInit ==
  /\ selectIdle
  /\ txIdle
  /\ logIdle
  /\ insertIdle
  /\ codecIdle
  /\ builderIdle
  /\ compileIdle
  /\ exprIdle
  /\ chainIdle

LogNext ==
  \/ withLoggedQuery
  \/ withLoggedQuery_onFulfilled
  \/ fn_settles
  \/ withLoggedQuery_onRejected
  \/ withLoggedQuery_settles

LogSpec == LogInit /\ [][LogNext]_vars

\* The position of the call of fn among the events, 0 when fn was not called.
fnAt ==
  IF \E i \in 1..Len(events) : events[i].hook = "fn"
  THEN CHOOSE i \in 1..Len(events) : events[i].hook = "fn"
  ELSE 0

fnFailed == lq.phase \in {"failed", "caught"} \/ (lq.phase = "done" /\ fnAt > 0 /\ lq.fn.mode \in {"throws", "rejects"})

fnSucceeded == lq.phase = "passed" \/ (lq.phase = "done" /\ fnAt > 0 /\ lq.fn.mode \in {"returns", "resolves"})

-----------------------------------------------------------------------------
(* Integers of more than 32 bits.                                          *)
(*                                                                         *)
(* A JavaScript integer up to 2^53 in magnitude is a sign and four 16-bit  *)
(* limbs, least significant first.                                         *)
(***************************************************************************)

Limb == 2^16

wide(n) ==
  LET mag == IF n < 0 THEN 0 - n ELSE n
  IN [neg |-> n < 0, limbs |-> <<mag % Limb, (mag \div Limb) % Limb, 0, 0>>]

\* ToInt32 of ECMA-262: the value modulo 2^32, taken in [-2^31, 2^31).
ToInt32(w) ==
  LET l0 == w.limbs[1]
      l1 == w.limbs[2]
      \* the 32 low bits of the magnitude, as a signed 32-bit integer
      low == IF l1 < Limb \div 2 THEN l1 * Limb + l0 ELSE (l1 - Limb) * Limb + l0
      MinInt32 == (0 - (Limb \div 2)) * Limb
  IN IF ~w.neg THEN low
     ELSE IF low = MinInt32 THEN MinInt32
     ELSE 0 - low

\* The limb form of a signed 32-bit integer.
fromInt32(n) ==
  LET MinInt32 == (0 - (Limb \div 2)) * Limb
  IN IF n = MinInt32 THEN [neg |-> TRUE, limbs |-> <<0, Limb \div 2, 0, 0>>]
     ELSE wide(n)

\* The integer of a limb form that fits 31 bits.
narrow(w) ==
  LET mag == w.limbs[2] * Limb + w.limbs[1]
  IN IF w.neg THEN 0 - mag ELSE mag

\* ~~value
INTEGER_encode(value) == Num(fromInt32(ToInt32(value.v)))

INTEGER_decode(value) == Num(fromInt32(ToInt32(value.v)))

TEXT_encode(value) == value

\* value * 1.0
FLOAT_encode(value) == Num(value.v * 1)

FLOAT_decode(value) == Num(value.v * 1)

TEXT_decode(value) == value

VARCHAR_encode(value) == value

VARCHAR_decode(value) == value

BINARY_encode(value) == value

BINARY_decode(value) == value

\* value ? 1 : 0
BOOLEAN_encode(value) == IF truthy(value) THEN Num(1) ELSE Num(0)

\* decode that takes every truthy stored value for true.
BOOLEAN_decode_truthy(value) == Bool(truthy(value))

\* value === 1
BOOLEAN_decode(value) == Bool(value = Num(1))

\* new Date(value), for the time values of valid dates (which TimeClip
\* leaves as they are).
DATETIME_decode(value) == Date(value.v)

\* CODECS[type].encode(value); the integers of a row are small and are
\* widened to the limb form the INTEGER codec works on.
CODECS_encode(type, value) ==
  CASE type = "INTEGER" -> Num(narrow(INTEGER_encode(Num(wide(value.v))).v))
    [] type = "DATETIME" -> DATETIME_encode(value)
    [] type = "TEXT" -> TEXT_encode(value)
    [] type = "VARCHAR" -> VARCHAR_encode(value)
    [] type = "BINARY" -> BINARY_encode(value)
    [] type = "BOOLEAN" -> BOOLEAN_encode(value)
    [] type = "FLOAT" -> FLOAT_encode(value)

\* CODECS[type].decode(value)
CODECS_decode(type, value) ==
  CASE type = "INTEGER" -> Num(narrow(INTEGER_decode(Num(wide(value.v))).v))
    [] type = "FLOAT" -> FLOAT_decode(value)
    [] type = "DATETIME" -> DATETIME_decode(value)
    [] type = "TEXT" -> TEXT_decode(value)
    [] type = "VARCHAR" -> VARCHAR_decode(value)
    [] type = "BINARY" -> BINARY_decode(value)
    [] type = "BOOLEAN" -> BOOLEAN_decode(value)

-----------------------------------------------------------------------------
(* Insert (src/index.ts, src/bun-sqlite.ts).                               *)
(*                                                                         *)
(* A row is a plain object, given as the ordered entries of its keys.      *)
(***************************************************************************)

Obj(entries) == [entries |-> entries]

\* Object.fromEntries: a repeated key keeps its first position and takes
\* its last value.
RECURSIVE Object_fromEntries(_)
Object_fromEntries(entries) ==
  IF entries = <<>> THEN <<>>
  ELSE LET init == Object_fromEntries(SubSeq(entries, 1, Len(entries) - 1))
           last == entries[Len(entries)]
       IN IF \E i \in 1..Len(init) : init[i][1] = last[1]
          THEN [i \in 1..Len(init) |-> IF init[i][1] = last[1] THEN last ELSE init[i]]
          ELSE Append(init, last)

\* u.mapKeys(obj, u.snakeCase)
mapKeys_snakeCase(obj) ==
  Object_fromEntries([i \in 1..Len(obj) |-> <<snakeCase(obj[i][1]), obj[i][2]>>])

\* A zero-argument producer such as `() => new Date()`.
Producer == [js |-> "function"]

\* u.resolve(value) at time `clock`: the producer reads the clock, which
\* ticks at every evaluation.
resolve(value, clock) ==
  IF typeof(value) = "function"
  THEN [value |-> Date(clock), clock |-> clock + 1]
  ELSE [value |-> value, clock |-> clock]

\* column.default, undefined when the column declares none.
column_default(column) == IF has("default", column) THEN column.default ELSE Undefined

resolveInsertValue(column, row, clock) ==
  LET value == get(row.entries, column.name)
  IN IF truthy(column_default(column))
     THEN IF nullish(value) THEN resolve(column.default, clock)
          ELSE [value |-> value, clock |-> clock]
     ELSE IF has("nullable", column) THEN [value |-> coalesce(value, Null), clock |-> clock]
     ELSE [value |-> value, clock |-> clock]

\* prepareForInsert(shape)(row), the producers evaluated in shape order.
RECURSIVE prepareForInsert(_, _, _)
prepareForInsert(shape, row, clock) ==
  IF shape = <<>> THEN [value |-> Obj(<<>>), clock |-> clock]
  ELSE LET init == prepareForInsert(SubSeq(shape, 1, Len(shape) - 1), row, clock)
           last == shape[Len(shape)]
           cell == resolveInsertValue(last[2], row, init.clock)
       IN [value |-> Obj(Object_fromEntries(Append(init.value.entries, <<last[1], cell.value>>))),
           clock |-> cell.clock]

\* this.rows.map(prepareForInsert(insertShape))
RECURSIVE map_prepareForInsert(_, _, _)
map_prepareForInsert(shape, rows, clock) ==
  IF rows = <<>> THEN [value |-> <<>>, clock |-> clock]
  ELSE LET init == map_prepareForInsert(shape, SubSeq(rows, 1, Len(rows) - 1), clock)
           last == prepareForInsert(shape, rows[Len(rows)], init.clock)
       IN [value |-> Append(init.value, last.value), clock |-> last.clock]

getInsertShape(table) ==
  Object_fromEntries(SelectSeq(table.columns, LAMBDA entry : ~has("autoincrement", entry[2])))

\* schema['~standard'].validate(value) of the column schemas; the strings of
\* the model are no ISO 8601 dates.
RECURSIVE validate(_, _)
validate(schema, value) ==
  CASE schema[1] = "nullable" ->
         IF value = Null THEN [value |-> value] ELSE validate(schema[2], value)
    [] schema[1] = "integer" ->
         IF typeof(value) = "number" THEN [value |-> value]
         ELSE [issues |-> << <<>> >>]
    [] schema[1] = "string" ->
         IF typeof(value) = "string" THEN [value |-> value]
         ELSE [issues |-> << <<>> >>]
    [] schema[1] = "date" ->
         IF ~isPlainObject(value) /\ value.js = "date" THEN [value |-> value]
         ELSE IF typeof(value) = "number" THEN [value |-> Date(value.v)]
         ELSE [issues |-> << <<>> >>]

prependPath(at, issues) == [i \in 1..Len(issues) |-> <<at>> \o issues[i]]

\* std.strictObject(shape): the issues of the unknown and the missing
\* fields, then of each field of the input; validating a field that the
\* shape does not have throws a TypeError.
RECURSIVE strictObject_fields(_, _)
strictObject_fields(shape, entries) ==
  IF entries = <<>> THEN [issues |-> <<>>, record |-> <<>>]
  ELSE LET init == strictObject_fields(shape, SubSeq(entries, 1, Len(entries) - 1))
           last == entries[Len(entries)]
           parsed == validate(get(shape, last[1]), last[2])
       IN IF has("issues", parsed)
          THEN [issues |-> init.issues \o prependPath(last[1], parsed.issues), record |-> init.record]
          ELSE [issues |-> init.issues, record |-> Append(init.record, <<last[1], parsed.value>>)]

strictObject_validate(shape, input) ==
  LET inputKeys == keys(input.entries)
      shapeKeys == keys(shape)
      contains(list, key) == \E i \in 1..Len(list) : list[i] = key
      unknown == SelectSeq(inputKeys, LAMBDA key : ~contains(shapeKeys, key))
      required == SelectSeq(shapeKeys, LAMBDA key : ~contains(inputKeys, key))
      fields == strictObject_fields(shape, input.entries)
      issues == [i \in 1..Len(unknown) |-> <<unknown[i]>>]
                \o [i \in 1..Len(required) |-> <<required[i]>>]
                \o fields.issues
  IN IF Len(unknown) > 0 THEN Throw("shape[key] is undefined")
     ELSE IF Len(issues) > 0 THEN [issues |-> issues]
     ELSE [value |-> Obj(fields.record)]

\* std.array(schema)
RECURSIVE array_validate(_, _)
array_validate(shape, input) ==
  IF input = <<>> THEN [issues |-> <<>>, value |-> <<>>]
  ELSE LET init == array_validate(shape, SubSeq(input, 1, Len(input) - 1))
           parsed == strictObject_validate(shape, input[Len(input)])
       IN IF threw(init) THEN init
          ELSE IF threw(parsed) THEN parsed
          ELSE IF has("issues", parsed)
          THEN [issues |-> init.issues \o prependPath(Len(input) - 1, parsed.issues), value |-> init.value]
          ELSE [issues |-> init.issues, value |-> Append(init.value, parsed.value)]

\* u.mapValues(shape, (column) => column.schema), the fields of the strict
\* object schema.
buildInsertSchema(shape) ==
  Object_fromEntries([i \in 1..Len(shape) |-> <<shape[i][1], shape[i][2].schema>>])

\* createEncoder(shape)(row) with the keys of the encoded row left as they
\* are.
createEncoder_camelKeys(shape, row) ==
  LET encoders == Object_fromEntries([i \in 1..Len(shape) |-> <<shape[i][1], shape[i][2].type>>])
  IN Obj(Object_fromEntries(
       [i \in 1..Len(encoders) |->
          LET value == get(row.entries, encoders[i][1])
          IN <<encoders[i][1],
               IF value = Null THEN Null ELSE CODECS_encode(encoders[i][2], value)>>]))

\* createEncoder(shape)(row); an encoder is given by the type of its column.
createEncoder(shape, row) ==
  LET encoders == Object_fromEntries([i \in 1..Len(shape) |-> <<shape[i][1], shape[i][2].type>>])
  IN Obj(Object_fromEntries(
       [i \in 1..Len(encoders) |->
          LET value == get(row.entries, encoders[i][1])
          IN <<snakeCase(encoders[i][1]),
               IF value = Null THEN Null ELSE CODECS_encode(encoders[i][2], value)>>]))

render_row(shape, record) ==
  LET frags == [i \in 1..Len(keys(shape)) |-> <<"?">>]
      params == [i \in 1..Len(keys(shape)) |-> get(record.entries, keys(shape)[i])]
  IN glue([frags |-> << <<"(">> \o join(frags, <<", ">>) \o <<")">> >>, params |-> params])

RECURSIVE reduce_row(_, _, _)
reduce_row(shape, records, acc) ==
  IF records = <<>> THEN acc
  ELSE reduce_row(shape, Tail(records), collect(acc, render_row(shape, Head(records))))

ddl_insert(op) ==
  LET values == reduce_row(op.insertShape, op.records, EMPTY_RENDER_RESULT)
      frags == << <<"INSERT INTO ">>,
                  render_ref(op.table),
                  <<" (">>,
                  join([i \in 1..Len(op.insertShape) |-> render_ref(keys(op.insertShape)[i])], <<", ">>),
                  <<") VALUES ">>,
                  join(values.frags, <<", ">>),
                  <<" RETURNING ">>,
                  join(render_selection(op.returnShape).frags, <<", ">>),
                  <<";">> >>
  IN [sql |-> join(frags, <<>>), params |-> values.params]

\* The sql and params that BunSQLite.insert hands to the connection.
BunSQLite_insert(op) ==
  ddl_insert(spread(op,
    [records |-> [i \in 1..Len(op.records) |-> createEncoder(op.insertShape, op.records[i])],
     insertShape |-> mapKeys_snakeCase(op.insertShape)]))

\* The backups table of src/play.ts with a fixed default on sizeBytes and on
\* priority.
archives ==
  defineTable(<<"archives">>,
    << << <<"id">>, ColumnPropsBuilder_primaryKey(ColumnPropsBuilder_autoincrement(types_integer)) >>,
       << <<"parent", "I", "d">>, ColumnPropsBuilder_nullable(types_integer) >>,
       << <<"path">>, types_text >>,
       << <<"size", "B", "ytes">>, ColumnPropsBuilder_default(types_integer, Num(0)) >>,
       << <<"priority">>, ColumnPropsBuilder_default(types_integer, Num(5)) >>,
       << <<"created", "A", "t">>, ColumnPropsBuilder_default(types_datetime, Producer) >> >>)

MaxRows == 2

InsertTables == {backups, archives}

\* The rows given to values().
RowPool(table) ==
  IF table = backups
  THEN { Obj(<< << <<"path">>, Str(<<"/a">>) >> >>),
         Obj(<< << <<"parent", "I", "d">>, Num(1) >>, << <<"path">>, Str(<<"/b">>) >> >>),
         Obj(<< << <<"path">>, Str(<<"/c">>) >>, << <<"parent", "I", "d">>, Null >> >>),
         Obj(<< << <<"path">>, Str(<<"/d">>) >>, << <<"extra">>, Num(1) >> >>),
         Obj(<< << <<"parent", "I", "d">>, Num(2) >> >>) }
  ELSE { Obj(<< << <<"path">>, Str(<<"/a">>) >> >>),
         Obj(<< << <<"path">>, Str(<<"/b">>) >>, << <<"size", "B", "ytes">>, Num(3) >>,
                << <<"priority">>, Null >> >>),
         Obj(<< << <<"created", "A", "t">>, Date(7) >>, << <<"path">>, Str(<<"/c">>) >>,
                << <<"parent", "I", "d">>, Num(1) >>, << <<"priority">>, Num(9) >> >>),
         Obj(<< << <<"path">>, Str(<<"/d">>) >>, << <<"created", "A", "t">>, Num(5) >>,
                << <<"size", "B", "ytes">>, Num(0) >> >>) }

\* The argument of values(): one row or an array of rows.
ValuesArgs(table) ==
  RowPool(table) \cup { Arr(<<a, b>>) : a, b \in RowPool(table) }

\* into(table)
into ==
  /\ ins.phase = "idle"
  /\ \E table \in InsertTables :
       ins' = [phase |-> "building", table |-> table, rows |-> <<>>]
  /\ UNCHANGED insOut
  /\ UNCHANGED notInsert

\* InsertBuilder.values
values ==
  /\ ins.phase = "building"
  /\ \E rows \in ValuesArgs(ins.table) :
       /\ Len(ins.rows) + Len(wrap(rows)) <= MaxRows
       /\ ins' = [ins EXCEPT !.rows = ins.rows \o wrap(rows)]
  /\ UNCHANGED insOut
  /\ UNCHANGED notInsert

\* InsertBuilder.insert, up to the statement that the adapter hands to the
\* connection.
insert ==
  /\ ins.phase = "building"
  /\ ins' = [ins EXCEPT !.phase = "done"]
  /\ IF Len(ins.rows) = 0 THEN insOut' = [state |-> "returned", rows |-> <<>>]
     ELSE LET insertShape == getInsertShape(ins.table)
              prepared == map_prepareForInsert(insertShape, ins.rows, 0)
              result == array_validate(buildInsertSchema(insertShape), prepared.value)
              op == [table |-> ins.table.name,
                     records |-> result.value,
                     insertShape |-> insertShape,
                     returnShape |-> ins.table.columns]
          IN IF threw(result)
             THEN insOut' = [state |-> "threw", prepared |-> prepared.value,
                             evaluations |-> prepared.clock, error |-> result.throw]
             ELSE IF Len(result.issues) > 0
             THEN insOut' = [state |-> "threw", prepared |-> prepared.value,
                             evaluations |-> prepared.clock, error |-> "Failed validation"]
             ELSE insOut' = [state |-> "compiled", prepared |-> prepared.value,
                             evaluations |-> prepared.clock, op |-> op,
                             ddl |-> BunSQLite_insert(op)]
  /\ UNCHANGED notInsert

InsertInit ==
  /\ selectIdle
  /\ txIdle
  /\ logIdle
  /\ insertIdle
  /\ codecIdle
  /\ builderIdle
  /\ compileIdle
  /\ exprIdle
  /\ chainIdle

InsertNext ==
  \/ into
  \/ values
  \/ insert

InsertSpec == InsertInit /\ [][InsertNext]_vars

\* C5: a compiled insert of r records over an insert shape of n columns has
\* r*n params, row-major, params[(i-1)*n + j] being the encoded value of
\* record i for the j-th column of the insert shape; its text lists the
\* columns in insert shape order and has one parenthesised group of n
\* placeholders per record; no value that a record carries is missed.
C5_InsertRowMajor ==
  insOut.state = "compiled" =>
    LET op == insOut.op
        n == Len(op.insertShape)
        r == Len(op.records)
        ddl == insOut.ddl
        cell(i, j) == get(op.records[i].entries, op.insertShape[j][1])
        encoded(i, j) ==
          IF cell(i, j) = Null THEN Null
          ELSE CODECS_encode(op.insertShape[j][2].type, cell(i, j))
        group == <<"(">> \o join([j \in 1..n |-> <<"?">>], <<", ">>) \o <<")">>
        columnList == join([j \in 1..n |-> render_ref(snakeCase(op.insertShape[j][1]))], <<", ">>)
        head == <<"INSERT INTO ">> \o render_ref(op.table) \o <<" (">> \o columnList
                \o <<") VALUES ">> \o join([i \in 1..r |-> group], <<", ">>)
                \o <<" RETURNING ">>
    IN /\ Len(ddl.params) = r * n
       /\ \A i \in 1..r : \A j \in 1..n : ddl.params[(i - 1) * n + j] = encoded(i, j)
       /\ Len(SelectSeq(ddl.sql, LAMBDA atom : atom = "?")) = r * n
       /\ Len(ddl.sql) >= Len(head)
       /\ SubSeq(ddl.sql, 1, Len(head)) = head

C5_Witness ==
  /\ insOut.state = "compiled"
  /\ Len(insOut.op.records) = 2
  /\ Len(insOut.op.insertShape) >= 2
  /\ \E j \in 1..Len(insOut.op.insertShape) :
       LET key == insOut.op.insertShape[j][1]
       IN /\ snakeCase(key) # key
          /\ get(insOut.op.records[2].entries, key) \notin {Null, Undefined}
          /\ get(insOut.op.records[1].entries, key) = Null

\* C6: every cell that prepareForInsert resolves is, for a column with a
\* declared default, the row's value when it is present and non-nullish and
\* the default otherwise, a producer being evaluated once for each missing
\* cell; for a nullable column without default, the row's value or null;
\* for any other column, the row's value unchanged.
C6_ResolveInsertValue ==
  (insOut.state \in {"compiled", "threw"}) =>
    LET shape == getInsertShape(ins.table)
        r == Len(ins.rows)
        n == Len(shape)
        column(j) == shape[j][2]
        value(i, j) == get(ins.rows[i].entries, column(j).name)
        present(i, j) == ~nullish(value(i, j))
        result(i, j) == get(insOut.prepared[i].entries, shape[j][1])
        produced == { c \in (1..r) \X (1..n) :
                        /\ has("default", column(c[2]))
                        /\ column(c[2]).default = Producer
                        /\ ~present(c[1], c[2]) }
    IN /\ \A i \in 1..r : \A j \in 1..n :
            IF has("default", column(j))
            THEN IF present(i, j) THEN result(i, j) = value(i, j)
                 ELSE IF column(j).default = Producer THEN typeof(result(i, j)) = "object"
                 ELSE result(i, j) = column(j).default
            ELSE IF has("nullable", column(j))
            THEN result(i, j) = (IF present(i, j) THEN value(i, j) ELSE Null)
            ELSE result(i, j) = value(i, j)
       /\ insOut.evaluations = Cardinality(produced)
       /\ \A c, e \in produced : c # e => result(c[1], c[2]) # result(e[1], e[2])

-----------------------------------------------------------------------------
(* The INTEGER codec on the integers an integer column accepts. *)

\* Integers between Number.MIN_SAFE_INTEGER and Number.MAX_SAFE_INTEGER.
IntegerPool ==
  { [neg |-> neg, limbs |-> <<l0, l1, l2, l3>>] :
      neg \in BOOLEAN, l0 \in {0, 1, Limb - 1}, l1 \in {0, Limb \div 2 - 1, Limb \div 2, Limb - 1},
      l2 \in {0, 1}, l3 \in {0, 31} }
  \ { [neg |-> TRUE, limbs |-> <<0, 0, 0, 0>>] }

\* CODECS.INTEGER.encode(value), as BunSQLite.insert applies it.
encode ==
  /\ codec.phase = "input"
  /\ codec' = [phase |-> "encoded", v |-> codec.v, encoded |-> INTEGER_encode(codec.v)]
  /\ UNCHANGED notCodec

\* CODECS.INTEGER.decode(value), as BunSQLite.insert applies it to the
\* returned row.
decode ==
  /\ codec.phase = "encoded"
  /\ codec' = [phase |-> "decoded", v |-> codec.v, encoded |-> codec.encoded,
               decoded |-> INTEGER_decode(codec.encoded)]
  /\ UNCHANGED notCodec

CodecInit ==
  /\ selectIdle
  /\ txIdle
  /\ logIdle
  /\ insertIdle
  /\ builderIdle
  /\ compileIdle
  /\ exprIdle
  /\ chainIdle
  /\ codec \in { [phase |-> "input", v |-> Num(w)] : w \in IntegerPool }

CodecNext ==
  \/ encode
  \/ decode

CodecSpec == CodecInit /\ [][CodecNext]_vars

\* C7: the INTEGER codec returns every integer of an integer column as it
\* is, on encode and on decode of the encoded value.
C7_IntegerRoundTrip ==
  /\ codec.phase \in {"encoded", "decoded"} => codec.encoded = codec.v
  /\ codec.phase = "decoded" => codec.decoded = codec.v

-----------------------------------------------------------------------------
(* Builders as objects (QueryBuilder, src/index.ts).                       *)
(*                                                                         *)
(* The objects and arrays that the builders create live in a heap, a       *)
(* sequence of cells; a reference [ref |-> n] names the n-th cell, so that *)
(* two builders can share an object and a write through one of them shows  *)
(* through the other.                                                      *)
(***************************************************************************)

MaxBuilders == 3

Ref(n) == [ref |-> n]

isRef(value) == has("ref", value)

\* The heap after `new`, `{ ... }` or `[ ... ]`; the new cell is the last.
alloc(h, cell) == Append(h, cell)

last(h) == Ref(Len(h))

\* An expression that a callback returns, other than a new And.
Leaf(name) == [expr |-> name]

\* The value that a reference stands for, its references followed.
RECURSIVE deep(_, _)
deep(h, value) ==
  IF ~isRef(value) THEN value
  ELSE LET cell == h[value.ref]
       IN CASE cell.kind = "array" -> [i \in 1..Len(cell.items) |-> deep(h, cell.items[i])]
            [] cell.kind = "and" -> [and |-> deep(h, cell.and)]
            [] cell.kind = "object" ->
                 [i \in 1..Len(cell.entries) |-> <<cell.entries[i][1], deep(h, cell.entries[i][2])>>]
            [] cell.kind = "InsertBuilder" ->
                 [table |-> cell.table, rows |-> deep(h, cell.rows)]
            [] cell.kind = "query" ->
                 [registry |-> deep(h, cell.registry),
                  from |-> cell.from,
                  joins |-> deep(h, cell.joins),
                  where |-> deep(h, cell.where),
                  orderBy |-> deep(h, cell.orderBy),
                  limit |-> cell.limit,
                  offset |-> cell.offset,
                  select |-> deep(h, cell.select)]

\* from(table): the registry, the selection and the query are new objects.
ref_from(h, alias) ==
  LET h1 == alloc(h, [kind |-> "object", entries |-> << <<alias, Leaf(alias)>> >>])
      h2 == alloc(h1, [kind |-> "object", entries |-> << <<"columns", Leaf(alias)>> >>])
  IN alloc(h2, [kind |-> "query", registry |-> last(h1), from |-> alias, joins |-> Undefined,
                where |-> Undefined, orderBy |-> Undefined, limit |-> Undefined,
                offset |-> Undefined, select |-> last(h2)])

\* { ...obj, [key]: value } on the entries of an object.
put(entries, key, value) ==
  IF \E i \in 1..Len(entries) : entries[i][1] = key
  THEN [i \in 1..Len(entries) |-> IF entries[i][1] = key THEN <<key, value>> ELSE entries[i]]
  ELSE Append(entries, <<key, value>>)

\* QueryBuilder.innerJoin on the builder whose query is the cell q.
ref_innerJoin(h, q, alias, on) ==
  LET this == h[q.ref]
      h1 == alloc(h, [kind |-> "object",
                      entries |-> put(h[this.registry.ref].entries, alias, Leaf(alias))])
      joined == [type |-> "INNER JOIN", alias |-> alias, on |-> on]
      h2 == alloc(h1, [kind |-> "array",
                       items |-> (IF nullish(this.joins) THEN <<>> ELSE h[this.joins.ref].items)
                                 \o <<joined>>])
  IN alloc(h2, [this EXCEPT !.registry = last(h1), !.joins = last(h2)])

ref_limit(h, q, n) == alloc(h, [h[q.ref] EXCEPT !.limit = n])

ref_offset(h, q, n) == alloc(h, [h[q.ref] EXCEPT !.offset = n])

\* The array that the callback of orderBy returns is new.
ref_orderBy(h, q, pairs) ==
  LET h1 == alloc(h, [kind |-> "array", items |-> pairs])
  IN alloc(h1, [h[q.ref] EXCEPT !.orderBy = last(h1)])

\* The object that the callback of select returns is new.
ref_select(h, q, selection) ==
  LET h1 == alloc(h, [kind |-> "object", entries |-> selection])
  IN alloc(h1, [h[q.ref] EXCEPT !.select = last(h1)])

\* expr.and(exprs) where exprs is a new array of the given items.
ref_and(h, items) ==
  LET h1 == alloc(h, [kind |-> "array", items |-> items])
  IN alloc(h1, [kind |-> "and", and |-> last(h1)])

\* is.and
ref_is_and(h, value) == isRef(value) /\ h[value.ref].kind = "and"

\* QueryBuilder.where with the value pushed onto the list of the And that
\* the query already has.
ref_where_push(h, q, value) ==
  LET this == h[q.ref]
  IN IF this.where = Undefined THEN alloc(h, [this EXCEPT !.where = value])
     ELSE IF ref_is_and(h, this.where)
     THEN LET list == h[this.where.ref].and
              h1 == [h EXCEPT ![list.ref].items = Append(@, value)]
          IN alloc(h1, [this EXCEPT !.where = this.where])
     ELSE LET h1 == ref_and(h, <<this.where, value>>)
          IN alloc(h1, [this EXCEPT !.where = last(h1)])

\* QueryBuilder.where; value is what fn(this.query.registry) returned.
ref_where(h, q, value) ==
  LET this == h[q.ref]
  IN IF this.where = Undefined THEN alloc(h, [this EXCEPT !.where = value])
     ELSE IF ref_is_and(h, this.where)
     THEN LET h1 == ref_and(h, h[h[this.where.ref].and.ref].items \o <<value>>)
          IN alloc(h1, [this EXCEPT !.where = last(h1)])
     ELSE LET h1 == ref_and(h, <<this.where, value>>)
          IN alloc(h1, [this EXCEPT !.where = last(h1)])

\* toSelectStatement({ ...this.query, limit: 1, offset: 0 }) of one and
\* exists, and toSelectStatement(this.query) of all: the statement is a new
\* object, given here by its value.
ref_toSelectStatement(h, q, single) ==
  LET value == deep(h, q)
  IN IF single THEN [value EXCEPT !.limit = Num(1), !.offset = Num(0)] ELSE value

\* The builder just created, with the value of its query at that time.
obtained(h) == [q |-> last(h), was |-> deep(h, last(h))]

obj_from ==
  /\ builders = <<>>
  /\ heap' = ref_from(heap, "b1")
  /\ builders' = <<obtained(heap')>>
  /\ UNCHANGED ran
  /\ UNCHANGED notBuilder

obj_innerJoin ==
  /\ Len(builders) < MaxBuilders
  /\ \E i \in 1..Len(builders) :
       heap' = ref_innerJoin(heap, builders[i].q, "b2", Leaf("on"))
  /\ builders' = Append(builders, obtained(heap'))
  /\ UNCHANGED ran
  /\ UNCHANGED notBuilder

obj_limit ==
  /\ Len(builders) < MaxBuilders
  /\ \E i \in 1..Len(builders) : heap' = ref_limit(heap, builders[i].q, Num(2))
  /\ builders' = Append(builders, obtained(heap'))
  /\ UNCHANGED ran
  /\ UNCHANGED notBuilder

obj_offset ==
  /\ Len(builders) < MaxBuilders
  /\ \E i \in 1..Len(builders) : heap' = ref_offset(heap, builders[i].q, Num(0))
  /\ builders' = Append(builders, obtained(heap'))
  /\ UNCHANGED ran
  /\ UNCHANGED notBuilder

obj_orderBy ==
  /\ Len(builders) < MaxBuilders
  /\ \E i \in 1..Len(builders) :
       heap' = ref_orderBy(heap, builders[i].q, <<[expr |-> "e1", dir |-> "ASC"]>>)
  /\ builders' = Append(builders, obtained(heap'))
  /\ UNCHANGED ran
  /\ UNCHANGED notBuilder

obj_select ==
  /\ Len(builders) < MaxBuilders
  /\ \E i \in 1..Len(builders) :
       heap' = ref_select(heap, builders[i].q, << <<"aid", Leaf("id")>> >>)
  /\ builders' = Append(builders, obtained(heap'))
  /\ UNCHANGED ran
  /\ UNCHANGED notBuilder

\* where(fn), fn returning an expression or a new And of two expressions.
obj_where ==
  /\ Len(builders) < MaxBuilders
  /\ \E i \in 1..Len(builders) :
       \/ \E name \in {"e1", "e2"} : heap' = ref_where(heap, builders[i].q, Leaf(name))
       \/ LET h1 == ref_and(heap, <<Leaf("e3"), Leaf("e4")>>)
          IN heap' = ref_where(h1, builders[i].q, last(h1))
  /\ builders' = Append(builders, obtained(heap'))
  /\ UNCHANGED ran
  /\ UNCHANGED notBuilder

\* all, one and exists, up to the statement handed to db.query.
obj_execute ==
  /\ builders # <<>>
  /\ \E i \in 1..Len(builders) : \E method \in {"all", "one", "exists"} :
       ran' = [method |-> method, builder |-> i,
               stmt |-> ref_toSelectStatement(heap, builders[i].q, method # "all")]
  /\ UNCHANGED <<heap, builders>>
  /\ UNCHANGED notBuilder

BuilderInit ==
  /\ selectIdle
  /\ txIdle
  /\ logIdle
  /\ insertIdle
  /\ codecIdle
  /\ builderIdle
  /\ compileIdle
  /\ exprIdle
  /\ chainIdle

BuilderNext ==
  \/ obj_from
  \/ obj_innerJoin
  \/ obj_limit
  \/ obj_offset
  \/ obj_orderBy
  \/ obj_select
  \/ obj_where
  \/ obj_execute

BuilderSpec == BuilderInit /\ [][BuilderNext]_vars

\* C11: after any sequence of builder calls and executions, the query of
\* every builder obtained so far has the value it had when the builder was
\* obtained.
C11_BuildersAreImmutable ==
  \A i \in 1..Len(builders) : deep(heap, builders[i].q) = builders[i].was

C11_Witness ==
  /\ ran # NotRun
  /\ \E i, j \in 1..Len(builders) :
       /\ i < j
       /\ has("and", builders[i].was.where)
       /\ has("and", builders[j].was.where)
       /\ Len(builders[i].was.where.and) = 2
       /\ Len(builders[j].was.where.and) = 3

-----------------------------------------------------------------------------
(* InsertBuilder as an object (src/index.ts). *)

\* into(table): new InsertBuilder(table), its rows a new empty array.
ref_into(h, table) ==
  LET h1 == alloc(h, [kind |-> "array", items |-> <<>>])
  IN alloc(h1, [kind |-> "InsertBuilder", table |-> table, rows |-> last(h1)])

\* InsertBuilder.values: this.rows.push(...u.wrap(rows)); the builder
\* returned is `this`.
ref_values(h, this, rows) ==
  [heap |-> [h EXCEPT ![h[this.ref].rows.ref].items = @ \o wrap(rows)],
   returned |-> this]

obj_into ==
  /\ Len(builders) < MaxBuilders
  /\ \E table \in {"backups", "archives"} : heap' = ref_into(heap, table)
  /\ builders' = Append(builders, obtained(heap'))
  /\ UNCHANGED ran
  /\ UNCHANGED notBuilder

\* values(rows) with one row or an array of rows.
obj_values ==
  /\ Len(builders) < MaxBuilders
  /\ \E i \in 1..Len(builders) :
       \E rows \in {Leaf("r1"), Leaf("r2"), Arr(<<Leaf("r3"), Leaf("r4")>>)} :
         LET result == ref_values(heap, builders[i].q, rows)
         IN /\ heap' = result.heap
            /\ builders' = Append(builders, [q |-> result.returned,
                                             was |-> deep(result.heap, result.returned)])
  /\ UNCHANGED ran
  /\ UNCHANGED notBuilder

\* InsertBuilder.insert, up to the rows it prepares for db.insert.
obj_insert ==
  /\ builders # <<>>
  /\ \E i \in 1..Len(builders) :
       ran' = [method |-> "insert", builder |-> i, rows |-> deep(heap, builders[i].q).rows]
  /\ UNCHANGED <<heap, builders>>
  /\ UNCHANGED notBuilder

IntoNext ==
  \/ obj_into
  \/ obj_values
  \/ obj_insert

IntoSpec == BuilderInit /\ [][IntoNext]_vars

\* C12: values returns a builder other than the one it was called on, and
\* the rows of every builder obtained so far are the rows it had when it was
\* obtained.
C12_ValuesIsPure ==
  /\ \A i \in 1..Len(builders) : deep(heap, builders[i].q) = builders[i].was
  /\ \A i, j \in 1..Len(builders) : i # j => builders[i].q # builders[j].q

-----------------------------------------------------------------------------
(* The arrays of the compiler (src/bun-sqlite.ts).                         *)
(*                                                                         *)
(* arrays[1] is the params array of EMPTY_RENDER_RESULT, created when the  *)
(* module is loaded; every other array is the params array that a call of  *)
(* the compiler created.  A call returns the index of its params array.    *)
(* The expressions of the statements have no And, Or or IN list, whose     *)
(* rendering would read EMPTY_RENDER_RESULT as well.                       *)
(***************************************************************************)

MaxCalls == 2

ddl_delete(op) ==
  LET rendered == IF truthy(op.where) THEN render_expr_any(op.where) ELSE EMPTY_RENDER_RESULT
  IN IF threw(rendered) THEN rendered
     ELSE LET frags == << <<"DELETE FROM ">>, render_ref(op.table), <<" AS ">>, render_ref(op.alias),
                          IF Len(rendered.frags) > 0 THEN <<" WHERE ">> ELSE <<>> >>
                       \o rendered.frags
                       \o << <<";">> >>
          IN [sql |-> join(frags, <<>>), params |-> rendered.params]

\* params: [] of ddl.createTable
ref_ddl_createTable(a, op) == [arrays |-> Append(a, <<>>), params |-> Len(a) + 1]

\* values.params of ddl.insert: records.reduce(collect(...), EMPTY_RENDER_RESULT)
\* is EMPTY_RENDER_RESULT itself when there is no record.
ref_ddl_insert(a, op) ==
  IF Len(op.records) = 0 THEN [arrays |-> a, params |-> 1]
  ELSE [arrays |-> Append(a, a[1] \o reduce_row(op.insertShape, op.records, EMPTY_RENDER_RESULT).params),
        params |-> Len(a) + 1]

\* [...where.params] of ddl.delete
ref_ddl_delete(a, op) ==
  LET whereParams == IF truthy(op.where) THEN render_expr_any(op.where).params ELSE a[1]
  IN [arrays |-> Append(a, whereParams), params |-> Len(a) + 1]

\* [...joins.params, ...where.params, ...limit.params, ...offset.params] of
\* ddl.select
ref_ddl_select(a, op) ==
  LET joinsParams == IF truthy(op.joins) /\ Len(op.joins.v) > 0
                     THEN a[1] \o reduce_join(op.joins.v, EMPTY_RENDER_RESULT).params
                     ELSE a[1]
      whereParams == IF truthy(op.where) THEN render_expr_any(op.where).params ELSE a[1]
      limitParams == IF op.limit # Undefined THEN <<op.limit>> ELSE <<>>
      offsetParams == IF op.offset # Undefined THEN <<op.offset>> ELSE <<>>
  IN [arrays |-> Append(a, joinsParams \o whereParams \o limitParams \o offsetParams),
      params |-> Len(a) + 1]

CreateTableStatements == { [table |-> <<"backups">>, ifNotExists |-> TRUE] }

\* The statements that BunSQLite.insert compiles, of zero to two records.
InsertStatements ==
  LET shape == getInsertShape(backups)
      r1 == Obj(<< << <<"parent", "I", "d">>, Null >>, << <<"path">>, Str(<<"/a">>) >> >>)
      r2 == Obj(<< << <<"parent", "I", "d">>, Num(1) >>, << <<"path">>, Str(<<"/b">>) >> >>)
  IN { [table |-> <<"backups">>,
        records |-> [i \in 1..Len(records) |-> createEncoder(shape, records[i])],
        insertShape |-> mapKeys_snakeCase(shape),
        returnShape |-> backups.columns] : records \in {<<>>, <<r1>>, <<r1, r2>>} }

DeleteStatements ==
  { [table |-> <<"backups">>, alias |-> <<"b1">>, where |-> e] :
      e \in {Undefined, expr_eq(id(b1), Num(2))} }

SelectStatements ==
  { toSelectStatement(q) :
      q \in { from(b1),
              QueryBuilder_where(from(b1), expr_gt(id(b1), Num(3))),
              QueryBuilder_limit(QueryBuilder_innerJoin(from(b1), b2, expr_eq(id(b2), Num(4))), Num(1)) } }

\* A call of the compiler, as recorded: its statement, the index of the
\* params array it returned and the content of the array at that time.
called(fn, op, result) ==
  [fn |-> fn, op |-> op, params |-> result.params,
   returned |-> result.arrays[result.params], mutated |-> FALSE]

compile_createTable ==
  /\ Len(calls) < MaxCalls
  /\ \E op \in CreateTableStatements :
       LET result == ref_ddl_createTable(arrays, op)
       IN arrays' = result.arrays /\ calls' = Append(calls, called("createTable", op, result))
  /\ UNCHANGED notCompile

compile_insert ==
  /\ Len(calls) < MaxCalls
  /\ \E op \in InsertStatements :
       LET result == ref_ddl_insert(arrays, op)
       IN arrays' = result.arrays /\ calls' = Append(calls, called("insert", op, result))
  /\ UNCHANGED notCompile

compile_delete ==
  /\ Len(calls) < MaxCalls
  /\ \E op \in DeleteStatements :
       LET result == ref_ddl_delete(arrays, op)
       IN arrays' = result.arrays /\ calls' = Append(calls, called("delete", op, result))
  /\ UNCHANGED notCompile

compile_select ==
  /\ Len(calls) < MaxCalls
  /\ \E op \in SelectStatements :
       LET result == ref_ddl_select(arrays, op)
       IN arrays' = result.arrays /\ calls' = Append(calls, called("select", op, result))
  /\ UNCHANGED notCompile

\* A caller or a logger pushes a value onto a params array it was handed.
params_push ==
  /\ \E i \in 1..Len(calls) :
       /\ ~calls[i].mutated
       /\ arrays' = [arrays EXCEPT ![calls[i].params] = Append(@, Str(<<"x">>))]
       /\ calls' = [calls EXCEPT ![i].mutated = TRUE]
  /\ UNCHANGED notCompile

CompileNext ==
  \/ compile_createTable
  \/ compile_insert
  \/ compile_delete
  \/ compile_select
  \/ params_push

CompileSpec == BuilderInit /\ [][CompileNext]_vars

\* The params of a statement compiled on its own.
paramsOf(fn, op) ==
  CASE fn = "createTable" -> <<>>
    [] fn = "insert" -> ddl_insert(op).params
    [] fn = "delete" -> ddl_delete(op).params
    [] fn = "select" -> ddl_select(op).params

\* C13: whatever the callers do to the params arrays they were handed, the
\* params that a call of the compiler returns are those of its own
\* statement, in an array that is neither the one of EMPTY_RENDER_RESULT nor
\* the one of another call.
C13_CompileIsFresh ==
  /\ \A i \in 1..Len(calls) : calls[i].returned = paramsOf(calls[i].fn, calls[i].op)
  /\ \A i \in 1..Len(calls) : calls[i].params # 1
  /\ \A i, j \in 1..Len(calls) : i # j => calls[i].params # calls[j].params

-----------------------------------------------------------------------------
(* The expression model: an expression is written with the helpers of expr  *)
(* and handed to the compiler as the where of a select, as the on of a      *)
(* join and as the expression of an orderBy pair.                           *)

MaxDepth == 2

\* The expressions the model starts from: a column, the literals, IN lists,
\* and values that are none of the variants of Expr.
ExprPool ==
  { id(b1), Num(0), Num(5), Str(<<"x%">>), Date(7), Bool(TRUE), Null,
    expr_in(id(b1), Arr(<<Num(1), Str(<<"y">>)>>)),
    expr_notIn(parentId(b1), Arr(<<Date(7)>>)),
    [foo |-> Num(1)], BigInt(0), BigInt(1) }

\* The other members of the list given to expr.and and expr.or.
Siblings == { <<>>, <<Str(<<"x%">>)>>, <<Undefined>> }

\* The operators of the binary helpers that take an expression on the right.
RhsOps == { "=", "IN", "NOT IN" }

\* from(b1).where(() => e).limit(n).offset(n + 1), as a statement
inWhere(e, n) ==
  toSelectStatement(
    QueryBuilder_offset(QueryBuilder_limit(QueryBuilder_where(from(b1), e), Num(n)), Num(n + 1)))

\* from(b1).innerJoin(b2, () => e), as a statement
inJoin(e) == toSelectStatement(QueryBuilder_innerJoin(from(b1), b2, e))

\* from(b1).orderBy(() => [expr.desc(e)]), as a statement
inOrderBy(e) == toSelectStatement(QueryBuilder_orderBy(from(b1), Arr(<<expr_desc(e)>>)))

\* expr.not(tree)
wrap_not ==
  /\ ex.phase = "written"
  /\ ex.depth < MaxDepth
  /\ ex' = [ex EXCEPT !.tree = expr_not(ex.tree), !.depth = ex.depth + 1]
  /\ UNCHANGED notExpr

\* expr.and([tree, ...]) and expr.and([..., tree])
wrap_and ==
  /\ ex.phase = "written"
  /\ ex.depth < MaxDepth
  /\ \E others \in Siblings : \E exprs \in { <<ex.tree>> \o others, others \o <<ex.tree>> } :
       ex' = [ex EXCEPT !.tree = expr_and(exprs), !.depth = ex.depth + 1]
  /\ UNCHANGED notExpr

\* expr.or([tree, ...]) and expr.or([..., tree])
wrap_or ==
  /\ ex.phase = "written"
  /\ ex.depth < MaxDepth
  /\ \E others \in Siblings : \E exprs \in { <<ex.tree>> \o others, others \o <<ex.tree>> } :
       ex' = [ex EXCEPT !.tree = expr_or(exprs), !.depth = ex.depth + 1]
  /\ UNCHANGED notExpr

\* expr.eq(col, tree), expr.in(col, tree), expr.notIn(col, tree) and
\* expr.like(tree, 'x%')
wrap_binaryOp ==
  /\ ex.phase = "written"
  /\ ex.depth < MaxDepth
  /\ \E e \in { [lhs |-> id(b1), op |-> o, rhs |-> ex.tree] : o \in RhsOps }
              \cup { expr_like(ex.tree, Str(<<"x%">>)) } :
       ex' = [ex EXCEPT !.tree = e, !.depth = ex.depth + 1]
  /\ UNCHANGED notExpr

\* QueryBuilder.all -> BunSQLite.query -> ddl.select, for the three
\* statements that carry the tree; rendered is what render.expr.any returned
\* for the tree.
compile ==
  /\ ex.phase = "written"
  /\ ex' = [phase |-> "compiled", tree |-> ex.tree, depth |-> ex.depth,
            rendered |-> render_expr_any(ex.tree),
            where |-> ddl_select(inWhere(ex.tree, 2)),
            on |-> ddl_select(inJoin(ex.tree)),
            orderBy |-> ddl_select(inOrderBy(ex.tree))]
  /\ UNCHANGED notExpr

ExprInit ==
  /\ selectIdle
  /\ txIdle
  /\ logIdle
  /\ insertIdle
  /\ codecIdle
  /\ builderIdle
  /\ compileIdle
  /\ chainIdle
  /\ \E e \in ExprPool : ex = [phase |-> "written", tree |-> e, depth |-> 0]

ExprNext ==
  \/ wrap_not
  \/ wrap_and
  \/ wrap_or
  \/ wrap_binaryOp
  \/ compile

ExprSpec == ExprInit /\ [][ExprNext]_vars

\* The same expression with other values in its number, string and Date
\* literals.
RECURSIVE otherValues(_)
otherValues(e) ==
  IF ~isPlainObject(e)
  THEN CASE e.js = "number" -> Num(e.v + 1)
         [] e.js = "string" -> Str(e.v \o <<"'">>)
         [] e.js = "date" -> Date(e.v + 1)
         [] e.js = "array" -> Arr([i \in 1..Len(e.v) |-> otherValues(e.v[i])])
         [] OTHER -> e
  ELSE IF is_binaryOp(e) THEN [e EXCEPT !.lhs = otherValues(e.lhs), !.rhs = otherValues(e.rhs)]
  ELSE IF is_and(e) THEN expr_and([i \in 1..Len(e.and) |-> otherValues(e.and[i])])
  ELSE IF is_or(e) THEN expr_or([i \in 1..Len(e.or) |-> otherValues(e.or[i])])
  ELSE IF is_not(e) THEN expr_not(otherValues(e.not))
  ELSE e

\* The atoms of the string literals of the model and of otherValues.
LiteralAtoms == { "x%", "y", "'", "/a", "/b" }

sqlOf(result) == IF threw(result) THEN result ELSE result.sql

\* db.insert of one row into archives with the given path and size.
insertOf(p, size) ==
  BunSQLite_insert(
    [table |-> archives.name,
     records |-> << Obj(<< << <<"path">>, Str(<<p>>) >>, << <<"size", "B", "ytes">>, size >> >>) >>,
     insertShape |-> << << <<"path">>, get(archives.columns, <<"path">>) >>,
                        << <<"size", "B", "ytes">>, get(archives.columns, <<"size", "B", "ytes">>) >> >>,
     returnShape |-> archives.columns])

\* C14: the SQL text does not depend on the values of the number, string and
\* Date literals of the where, join-on and orderBy expressions, of limit and
\* offset, or of the inserted cells: the statement with other values compiles
\* to the same text, and no atom of a string value occurs in the text.
C14_TextIndependentOfValues ==
  /\ ex.phase = "compiled" =>
       /\ sqlOf(ex.where) = sqlOf(ddl_select(inWhere(otherValues(ex.tree), 7)))
       /\ sqlOf(ex.on) = sqlOf(ddl_select(inJoin(otherValues(ex.tree))))
       /\ sqlOf(ex.orderBy) = sqlOf(ddl_select(inOrderBy(otherValues(ex.tree))))
       /\ \A r \in {ex.where, ex.on, ex.orderBy} :
            ~threw(r) => \A i \in 1..Len(r.sql) : r.sql[i] \notin LiteralAtoms
  /\ insertOf("/a", Num(3)).sql = insertOf("/b", Null).sql
  /\ \A i \in 1..Len(insertOf("/a", Num(3)).sql) : insertOf("/a", Num(3)).sql[i] \notin LiteralAtoms

\* The number of parentheses open after the first k atoms of a text.
open(text, k) ==
  Len(SelectSeq(SubSeq(text, 1, k), LAMBDA atom : atom = "("))
  - Len(SelectSeq(SubSeq(text, 1, k), LAMBDA atom : atom = ")"))

\* The parentheses of a text are balanced.
balanced(text) ==
  /\ \A k \in 1..Len(text) : open(text, k) >= 0
  /\ open(text, Len(text)) = 0

\* The whole text is enclosed in one pair of parentheses.
enclosed(text) ==
  /\ Len(text) >= 2
  /\ text[1] = "("
  /\ text[Len(text)] = ")"
  /\ \A k \in 1..(Len(text) - 1) : open(text, k) > 0
  /\ open(text, Len(text)) = 0

\* The text of a render result.
textOf(result) == join(result.frags, <<>>)

isArray(value) == ~isPlainObject(value) /\ value.js = "array"

\* The value a literal of an IN list is bound as.
boundAs(value) == IF is_date(value) THEN DATETIME_encode(value) ELSE value

\* C15: an IN / NOT IN node with an array on the right renders as
\* (lhs OP (?, ?, ...)) with one placeholder and one param per element, in
\* order; with an expression on the right it renders as (lhs OP (rhs)): what
\* follows the operator is the rendered right-hand side enclosed in
\* parentheses (its own pair, or a pair added around it).
C15_InRendering ==
  (/\ ex.phase = "compiled"
   /\ is_binaryOp(ex.tree)
   /\ ex.tree.op \in {"IN", "NOT IN"}
   /\ ~threw(ex.rendered)) =>
    LET lhs == render_expr_any(ex.tree.lhs)
        rhs == ex.tree.rhs
        text == textOf(ex.rendered)
        opening == <<"(">> \o textOf(lhs) \o <<" ", ex.tree.op, " ">>
        operand == SubSeq(text, Len(opening) + 1, Len(text) - 1)
    IN /\ Len(text) > Len(opening)
       /\ SubSeq(text, 1, Len(opening)) = opening
       /\ text[Len(text)] = ")"
       /\ IF isArray(rhs)
          THEN /\ operand = <<"(">> \o join([i \in 1..Len(rhs.v) |-> <<"?">>], <<", ">>) \o <<")">>
               /\ ex.rendered.params = lhs.params \o [i \in 1..Len(rhs.v) |-> boundAs(rhs.v[i])]
          ELSE /\ operand \in { textOf(render_expr_any(rhs)),
                                <<"(">> \o textOf(render_expr_any(rhs)) \o <<")">> }
               /\ enclosed(operand)

\* C16: a Not node renders as NOT (child): what follows NOT is the rendered
\* child enclosed in parentheses (its own pair, or a pair added around it),
\* whatever the variant of the child, and the params are the params of the
\* child.
C16_NotRendering ==
  (/\ ex.phase = "compiled"
   /\ is_not(ex.tree)
   /\ ~threw(ex.rendered)) =>
    LET child == render_expr_any(ex.tree.not)
        text == textOf(ex.rendered)
        operand == SubSeq(text, 2, Len(text))
    IN /\ text[1] = "NOT "
       /\ operand \in { textOf(child), <<"(">> \o textOf(child) \o <<")">> }
       /\ enclosed(operand)
       /\ ex.rendered.params = child.params

\* The nodes of an expression tree: the tree and the nodes of its children;
\* the list of an IN stands for its elements.
RECURSIVE nodes(_)
nodes(e) ==
  {e} \cup
    IF ~isPlainObject(e) THEN {}
    ELSE IF is_binaryOp(e)
    THEN nodes(e.lhs) \cup IF isArray(e.rhs)
                           THEN UNION { nodes(e.rhs.v[i]) : i \in 1..Len(e.rhs.v) }
                           ELSE nodes(e.rhs)
    ELSE IF is_and(e) THEN UNION { nodes(e.and[i]) : i \in 1..Len(e.and) }
    ELSE IF is_or(e) THEN UNION { nodes(e.or[i]) : i \in 1..Len(e.or) }
    ELSE IF is_not(e) THEN nodes(e.not)
    ELSE {}

RECURSIVE sum(_)
sum(ns) == IF ns = <<>> THEN 0 ELSE Head(ns) + sum(Tail(ns))

\* The number of nodes of a tree that group: binary ops, Ands, Ors and the
\* lists of IN.
RECURSIVE groups(_)
groups(e) ==
  IF ~isPlainObject(e)
  THEN IF isArray(e) THEN 1 + sum([i \in 1..Len(e.v) |-> groups(e.v[i])]) ELSE 0
  ELSE IF is_binaryOp(e) THEN 1 + groups(e.lhs) + groups(e.rhs)
  ELSE IF is_and(e) THEN 1 + sum([i \in 1..Len(e.and) |-> groups(e.and[i])])
  ELSE IF is_or(e) THEN 1 + sum([i \in 1..Len(e.or) |-> groups(e.or[i])])
  ELSE IF is_not(e) THEN groups(e.not)
  ELSE 0

RECURSIVE concat(_)
concat(lists) == IF lists = <<>> THEN <<>> ELSE Head(lists) \o concat(Tail(lists))

\* C17: an And / Or node with children c1..cn, n >= 1, renders as
\* ( r(c1) AND|OR r(c2) ... ) and its params are the params of the children
\* in child order; every binary op, And and Or node of the tree is enclosed
\* in its own pair of parentheses, so the parentheses of the text are
\* balanced and there is one pair per grouping node of the tree.
C17_AndOrRendering ==
  (ex.phase = "compiled" /\ ~threw(ex.rendered)) =>
    /\ \A n \in nodes(ex.tree) :
         /\ (isPlainObject(n) /\ ~is_binaryOp(n) /\ (is_and(n) \/ is_or(n))) =>
              LET children == IF is_and(n) THEN n.and ELSE n.or
                  word == IF is_and(n) THEN <<" AND ">> ELSE <<" OR ">>
                  r == [i \in 1..Len(children) |-> render_expr_any(children[i])]
              IN /\ Len(children) >= 1
                 /\ textOf(render_expr_any(n))
                      = <<"(">> \o join([i \in 1..Len(r) |-> textOf(r[i])], word) \o <<")">>
                 /\ render_expr_any(n).params = concat([i \in 1..Len(r) |-> r[i].params])
         /\ (isPlainObject(n) /\ (is_binaryOp(n) \/ is_and(n) \/ is_or(n))) =>
              enclosed(textOf(render_expr_any(n)))
    /\ balanced(textOf(ex.rendered))
    /\ Len(SelectSeq(textOf(ex.rendered), LAMBDA atom : atom = "(")) = groups(ex.tree)

\* An Or of a string and an And of two literals was compiled: three params.
C17_Witness ==
  /\ ex.phase = "compiled"
  /\ ~threw(ex.rendered)
  /\ is_or(ex.tree)
  /\ Len(ex.tree.or) = 2
  /\ is_and(ex.tree.or[2])
  /\ Len(ex.tree.or[2].and) = 2
  /\ ex.rendered.params = <<Str(<<"x%">>), Num(5), Str(<<"x%">>)>>

\* The value is one of the closed variants of Expr.
isVariant(e) ==
  is_binaryOp(e) \/ is_and(e) \/ is_or(e) \/ is_not(e) \/ is_column(e) \/ is_literal(e)

\* C18: compiling a where, a join-on or an orderBy whose tree has a node
\* that is none of the closed variants throws and yields no SQL: the node is
\* never skipped or rendered as something else.
C18_UnsupportedThrows ==
  (/\ ex.phase = "compiled"
   /\ \E n \in nodes(ex.tree) : ~isVariant(n)) =>
    /\ threw(ex.where)
    /\ threw(ex.on)
    /\ threw(ex.orderBy)

-----------------------------------------------------------------------------
(* The column definition model: a built-in type is picked, then builder     *)
(* calls are chained on it until one of them throws.                        *)

MaxChain == 3

\* The sizes given to types.string.
SizePool == { Undefined, Num(1), Num(255), Num(256), Num(1000) }

\* t.binary(), t.boolean(), ..., t.text(): the call and what it returned.
TypeCalls ==
  { <<[fn |-> "binary"], types_binary>>, <<[fn |-> "boolean"], types_boolean>>,
    <<[fn |-> "datetime"], types_datetime>>, <<[fn |-> "float"], types_float>>,
    <<[fn |-> "integer"], types_integer>>, <<[fn |-> "text"], types_text>> }
  \cup { <<[fn |-> "string", size |-> size], types_string(size)>> : size \in SizePool }

\* The chain after a call that returned a builder or threw; the trail is the
\* calls made so far.
after(name, result) ==
  IF threw(result)
  THEN [phase |-> "threw", props |-> IF chain.phase = "idle" THEN Undefined ELSE chain.props,
        trail |-> (IF chain.phase = "idle" THEN <<>> ELSE chain.trail) \o <<name>>,
        error |-> result.throw]
  ELSE [phase |-> "building", props |-> result,
        trail |-> (IF chain.phase = "idle" THEN <<>> ELSE chain.trail) \o <<name>>]

building == chain.phase = "building" /\ Len(chain.trail) <= MaxChain

\* t.<type>(...)
types_call ==
  /\ chain.phase = "idle"
  /\ \E call \in TypeCalls : chain' = after(call[1], call[2])
  /\ UNCHANGED notChain

autoincrement ==
  /\ building
  /\ chain' = after([fn |-> "autoincrement"], ColumnPropsBuilder_autoincrement(chain.props))
  /\ UNCHANGED notChain

default ==
  /\ building
  /\ \E value \in { Num(0), Producer } :
       chain' = after([fn |-> "default"], ColumnPropsBuilder_default(chain.props, value))
  /\ UNCHANGED notChain

nullable ==
  /\ building
  /\ chain' = after([fn |-> "nullable"], ColumnPropsBuilder_nullable(chain.props))
  /\ UNCHANGED notChain

primaryKey ==
  /\ building
  /\ chain' = after([fn |-> "primaryKey"], ColumnPropsBuilder_primaryKey(chain.props))
  /\ UNCHANGED notChain

unique ==
  /\ building
  /\ chain' = after([fn |-> "unique"], ColumnPropsBuilder_unique(chain.props))
  /\ UNCHANGED notChain

ChainInit ==
  /\ selectIdle
  /\ txIdle
  /\ logIdle
  /\ insertIdle
  /\ codecIdle
  /\ builderIdle
  /\ compileIdle
  /\ exprIdle
  /\ chainIdle

ChainNext ==
  \/ types_call
  \/ autoincrement
  \/ default
  \/ nullable
  \/ primaryKey
  \/ unique

ChainSpec == ChainInit /\ [][ChainNext]_vars

\* The calls of the chain before the last one.
earlier == SubSeq(chain.trail, 1, Len(chain.trail) - 1)

called_before(name) == \E i \in 1..Len(earlier) : earlier[i].fn = name

\* props[key] is set to a truthy value.
flag(props, key) == has(key, props) /\ props[key] = TRUE

\* C19: a column definition throws when autoincrement is called on a column
\* whose type is not INTEGER, when nullable is called after primaryKey or
\* primaryKey after nullable, and when types.string is given a size above
\* 255; so every column that a chain of successful calls produced has
\* autoincrement only with type INTEGER and is never both primaryKey and
\* nullable.
C19_ColumnDefinitionErrors ==
  chain.phase # "idle" =>
    LET call == chain.trail[Len(chain.trail)]
    IN /\ (call.fn = "autoincrement" /\ chain.props.type # "INTEGER") => chain.phase = "threw"
       /\ (call.fn = "nullable" /\ called_before("primaryKey")) => chain.phase = "threw"
       /\ (call.fn = "primaryKey" /\ called_before("nullable")) => chain.phase = "threw"
       /\ (\E size \in SizePool \ {Undefined} : size.v > 255 /\ call = [fn |-> "string", size |-> size]) =>
            chain.phase = "threw"
       /\ chain.phase = "building" =>
            /\ flag(chain.props, "autoincrement") => chain.props.type = "INTEGER"
            /\ ~(flag(chain.props, "primaryKey") /\ flag(chain.props, "nullable"))

\* primaryKey was called on a column made nullable two calls earlier, and
\* threw.
C19_Witness ==
  /\ chain.phase = "threw"
  /\ [i \in 1..Len(chain.trail) |-> chain.trail[i].fn]
       = <<"integer", "nullable", "default", "primaryKey">>
  /\ chain.error = "Cannot make a nullable column a primary key"

-----------------------------------------------------------------------------
(* The codecs of BOOLEAN, DATETIME, TEXT, VARCHAR and BINARY on the values   *)
(* their columns accept, and their decoders on stored values.               *)

MaxLen == 2

\* The sequences over a set of length MaxLen at most.
upTo(S) == UNION { [1..n -> S] : n \in 0..MaxLen }

Uint8Array(bytes) == [js |-> "Uint8Array", v |-> bytes]

\* The values of a column of each type.
ValuesOf(type) ==
  CASE type = "BOOLEAN" -> { Bool(TRUE), Bool(FALSE) }
    [] type = "DATETIME" -> { Date(ms) : ms \in {0 - 86400000, 0 - 1, 0, 1, 7, 999, 86400000} }
    [] type = "TEXT" -> { Str(t) : t \in upTo({"a", "'", "1"}) }
    [] type = "VARCHAR" -> { Str(t) : t \in upTo({"a", "'", "1"}) }
    [] type = "BINARY" -> { Uint8Array(bytes) : bytes \in upTo({0, 255}) }

CodecTypes == { "BOOLEAN", "DATETIME", "TEXT", "VARCHAR", "BINARY" }

\* What a column of the type may hold without the encoder having written it.
StoredIn(type) ==
  CASE type = "BOOLEAN" -> { Num(0), Num(1), Num(2), Num(0 - 1), Str(<<"1">>), Bool(TRUE) }
    [] type = "DATETIME" -> { Num(5) }
    [] type = "TEXT" -> { Str(<<"1">>) }
    [] type = "VARCHAR" -> { Str(<<"1">>) }
    [] type = "BINARY" -> { Uint8Array(<<1>>) }

\* CODECS[type].encode(value), as createEncoder applies it.
codec_encode ==
  /\ codec.phase = "value"
  /\ codec' = [phase |-> "encoded", type |-> codec.type, v |-> codec.v,
               encoded |-> CODECS_encode(codec.type, codec.v)]
  /\ UNCHANGED notCodec

\* CODECS[type].decode(value), as createDecoder applies it to what the
\* encoder wrote.
codec_decode ==
  /\ codec.phase = "encoded"
  /\ codec' = [phase |-> "decoded", type |-> codec.type, v |-> codec.v,
               encoded |-> codec.encoded,
               decoded |-> CODECS_decode(codec.type, codec.encoded)]
  /\ UNCHANGED notCodec

\* CODECS[type].decode(value), as createDecoder applies it to a value found
\* in the column.
codec_decode_stored ==
  /\ codec.phase = "stored"
  /\ codec' = [phase |-> "read", type |-> codec.type, stored |-> codec.stored,
               decoded |-> CODECS_decode(codec.type, codec.stored)]
  /\ UNCHANGED notCodec

CodecsInit ==
  /\ selectIdle
  /\ txIdle
  /\ logIdle
  /\ insertIdle
  /\ builderIdle
  /\ compileIdle
  /\ exprIdle
  /\ chainIdle
  /\ \E type \in CodecTypes :
       \/ \E v \in ValuesOf(type) : codec = [phase |-> "value", type |-> type, v |-> v]
       \/ \E v \in StoredIn(type) : codec = [phase |-> "stored", type |-> type, stored |-> v]

CodecsNext ==
  \/ codec_encode
  \/ codec_decode
  \/ codec_decode_stored

CodecsSpec == CodecsInit /\ [][CodecsNext]_vars

\* C20: for BOOLEAN, DATETIME, TEXT, VARCHAR and BINARY, decode(encode(v)) is
\* v for every value of the type; BOOLEAN encodes true to 1 and false to 0
\* and decodes 1 to true and every other stored value to false; DATETIME
\* encodes to the epoch milliseconds, a number; TEXT, VARCHAR and BINARY
\* encode and decode as the identity.
C20_CodecRoundTrip ==
  /\ codec.phase \in {"encoded", "decoded"} =>
       /\ codec.type = "BOOLEAN" =>
            codec.encoded = IF codec.v = Bool(TRUE) THEN Num(1) ELSE Num(0)
       /\ codec.type = "DATETIME" => codec.encoded = Num(codec.v.v)
       /\ codec.type \in {"TEXT", "VARCHAR", "BINARY"} => codec.encoded = codec.v
  /\ codec.phase = "decoded" => codec.decoded = codec.v
  /\ codec.phase = "read" =>
       /\ codec.type = "BOOLEAN" => codec.decoded = Bool(codec.stored = Num(1))
       /\ codec.type \in {"TEXT", "VARCHAR", "BINARY"} => codec.decoded = codec.stored

\* A date before the epoch went through encode and decode.
C20_Witness ==
  /\ codec.phase = "decoded"
  /\ codec.type = "DATETIME"
  /\ codec.v = Date(0 - 86400000)
  /\ codec.encoded = Num(0 - 86400000)

-----------------------------------------------------------------------------
(* Rows with null cells: a record is encoded for insert, the row that comes  *)
(* back is decoded, and a literal is rendered.                              *)

\* A table with a nullable column of every type.
samples ==
  defineTable(<<"samples">>,
    << << <<"blob">>, ColumnPropsBuilder_nullable(types_binary) >>,
       << <<"is", "D", "one">>, ColumnPropsBuilder_nullable(types_boolean) >>,
       << <<"seen", "A", "t">>, ColumnPropsBuilder_nullable(types_datetime) >>,
       << <<"ratio">>, ColumnPropsBuilder_nullable(types_float) >>,
       << <<"rank">>, ColumnPropsBuilder_nullable(types_integer) >>,
       << <<"label">>, ColumnPropsBuilder_nullable(types_string(Undefined)) >>,
       << <<"note">>, ColumnPropsBuilder_nullable(types_text) >> >>)

\* A value of a column of each type.
sampleOf(type) ==
  CASE type = "BINARY" -> Uint8Array(<<0, 255>>)
    [] type = "BOOLEAN" -> Bool(FALSE)
    [] type = "DATETIME" -> Date(7)
    [] type = "FLOAT" -> Num(2)
    [] type = "INTEGER" -> Num(0)
    [] type = "VARCHAR" -> Str(<<"a">>)
    [] type = "TEXT" -> Str(<<>>)

\* The records of samples: every cell is null or the value of its type.
SampleRows ==
  { Obj([i \in 1..Len(samples.columns) |->
           <<samples.columns[i][1],
             IF i \in nulls THEN Null ELSE sampleOf(samples.columns[i][2].type)>>]) :
      nulls \in SUBSET (1..Len(samples.columns)) }

LiteralPool == { Null, Bool(TRUE), Bool(FALSE), Num(0), Str(<<>>), Date(7) }

\* The calls of CODECS[type].encode that createEncoder(shape)(row) makes,
\* with a null test that is applied to no cell.
encodeCalls_all(shape, row) ==
  [i \in 1..Len(shape) |-> [type |-> shape[i][2].type, value |-> get(row.entries, shape[i][1])]]

\* The calls of CODECS[type].encode that createEncoder(shape)(row) makes.
encodeCalls(shape, row) ==
  SelectSeq([i \in 1..Len(shape) |->
               [type |-> shape[i][2].type, value |-> get(row.entries, shape[i][1])]],
            LAMBDA call : call.value # Null)

\* The calls of CODECS[type].decode that createDecoder(shape)(row) makes.
decodeCalls(shape, row) ==
  SelectSeq([i \in 1..Len(shape) |->
               [type |-> shape[i][2].type, value |-> get(row.entries, shape[i][1])]],
            LAMBDA call : call.value # Null)

\* createDecoder(shape)(row); a decoder is given by the type of its column.
createDecoder(shape, row) ==
  LET decoders == Object_fromEntries([i \in 1..Len(shape) |-> <<shape[i][1], shape[i][2].type>>])
  IN Obj(Object_fromEntries(
       [i \in 1..Len(decoders) |->
          LET value == get(row.entries, decoders[i][1])
          IN <<decoders[i][1],
               IF value = Null THEN Null ELSE CODECS_decode(decoders[i][2], value)>>]))

\* The row that RETURNING gives for an inserted record: the stored cells
\* under the aliases of render.selection.
returned(shape, record) ==
  Obj([i \in 1..Len(shape) |-> <<shape[i][1], get(record.entries, snakeCase(shape[i][1]))>>])

\* BunSQLite.insert: records.map(createEncoder(op.insertShape))
row_encode ==
  /\ codec.phase = "record"
  /\ codec' = [phase |-> "stored", row |-> codec.row,
               calls |-> encodeCalls(samples.columns, codec.row),
               record |-> createEncoder(samples.columns, codec.row)]
  /\ UNCHANGED notCodec

\* BunSQLite.insert: rows.map(createDecoder(op.returnShape))
row_decode ==
  /\ codec.phase = "stored"
  /\ LET row == returned(samples.columns, codec.record)
     IN codec' = [phase |-> "fetched", row |-> codec.row, record |-> codec.record,
                  returned |-> row,
                  calls |-> decodeCalls(samples.columns, row),
                  decoded |-> createDecoder(samples.columns, row)]
  /\ UNCHANGED notCodec

\* render.expr.literal
literal_render ==
  /\ codec.phase = "literal"
  /\ codec' = [phase |-> "rendered", v |-> codec.v, result |-> render_expr_literal(codec.v)]
  /\ UNCHANGED notCodec

RowInit ==
  /\ selectIdle
  /\ txIdle
  /\ logIdle
  /\ insertIdle
  /\ builderIdle
  /\ compileIdle
  /\ exprIdle
  /\ chainIdle
  /\ \/ \E row \in SampleRows : codec = [phase |-> "record", row |-> row]
     \/ \E v \in LiteralPool : codec = [phase |-> "literal", v |-> v]

RowNext ==
  \/ row_encode
  \/ row_decode
  \/ literal_render

RowSpec == RowInit /\ [][RowNext]_vars

\* C21: no codec is called on null: createEncoder gives null for a null cell
\* of a column of any type, createDecoder gives null for a null column of a
\* returned row, and the literal null renders as NULL with no param.
C21_NullBypassesCodecs ==
  /\ codec.phase \in {"stored", "fetched"} =>
       /\ \A i \in 1..Len(codec.calls) : codec.calls[i].value # Null
       /\ \A i \in 1..Len(samples.columns) :
            LET key == samples.columns[i][1]
            IN get(codec.row.entries, key) = Null =>
                 /\ get(codec.record.entries, snakeCase(key)) = Null
                 /\ codec.phase = "fetched" =>
                      /\ get(codec.returned.entries, key) = Null
                      /\ get(codec.decoded.entries, key) = Null
  /\ (codec.phase = "rendered" /\ codec.v = Null) =>
       codec.result = [frags |-> << <<"NULL">> >>, params |-> <<>>]

\* A record with null in its boolean, datetime and integer cells and values
\* in the others went to the table and came back.
C21_Witness ==
  /\ codec.phase = "fetched"
  /\ get(codec.row.entries, <<"is", "D", "one">>) = Null
  /\ get(codec.row.entries, <<"seen", "A", "t">>) = Null
  /\ get(codec.row.entries, <<"rank">>) = Null
  /\ get(codec.decoded.entries, <<"label">>) = Str(<<"a">>)
  /\ Len(codec.calls) = 4

-----------------------------------------------------------------------------
(* Create table: a column is defined by a chain of builder calls, put in a  *)
(* table next to a fixed column, and the table is created.                  *)

TYPES_MAPPING(type) ==
  CASE type = "BINARY" -> <<"BLOB">>
    [] type = "BOOLEAN" -> <<"INTEGER">>
    [] type = "DATETIME" -> <<"INTEGER">>
    [] type = "FLOAT" -> <<"REAL">>
    [] type = "INTEGER" -> <<"INTEGER">>
    [] type = "TEXT" -> <<"TEXT">>
    [] type = "VARCHAR" -> <<"TEXT">>

render_column(col) ==
  LET is_primaryKey == flag(col, "primaryKey")
      is_autoincrement == flag(col, "autoincrement")
      is_nullable == flag(col, "nullable")
      is_unique == flag(col, "unique")
      frags == << render_ref(snakeCase(col.name)), TYPES_MAPPING(col.type) >>
               \o (IF is_primaryKey THEN << <<"PRIMARY KEY ASC">> >> ELSE <<>>)
               \o (IF is_autoincrement THEN << <<"AUTOINCREMENT">> >> ELSE <<>>)
  IN IF is_primaryKey THEN glue([frags |-> <<join(frags, <<" ">>)>>, params |-> <<>>])
     ELSE glue([frags |-> <<join(frags
                                 \o (IF ~is_nullable THEN << <<"NOT NULL">> >> ELSE <<>>)
                                 \o (IF is_unique THEN << <<"UNIQUE">> >> ELSE <<>>),
                                 <<" ">>)>>,
                params |-> <<>>])

ddl_createTable(op) ==
  LET columns == join([i \in 1..Len(op.columns) |-> join(render_column(op.columns[i]).frags, <<>>)],
                      <<", ">>)
      frags == << <<"CREATE ">>,
                  IF flag(op, "unlogged") THEN <<"UNLOGGED ">> ELSE <<>>,
                  <<"TABLE ">>,
                  IF flag(op, "ifNotExists") THEN <<"IF NOT EXISTS ">> ELSE <<>>,
                  render_ref(op.table),
                  <<" (">>,
                  columns,
                  <<");">> >>
  IN [sql |-> join(frags, <<>>), params |-> <<>>]

\* Object.values(table.columns)
Object_values(entries) == [i \in 1..Len(entries) |-> entries[i][2]]

\* create.table(table, options).onto(db), up to the statement text
create_table(table, options) ==
  ddl_createTable(spread(options, [table |-> table.name, columns |-> Object_values(table.columns)]))

\* The options given to create.table.
OptionsPool ==
  { [none |-> TRUE], [ifNotExists |-> TRUE], [unlogged |-> TRUE],
    [ifNotExists |-> TRUE, unlogged |-> TRUE] }

\* table('things', t => ({ ..., someName: <the chain> })) with the chain as
\* the last or as the first column.
things(props, chainFirst) ==
  LET fixed == << <<"created", "A", "t">>, types_datetime >>
      made == << <<"some", "I", "d">>, props >>
  IN defineTable(<<"things">>, IF chainFirst THEN <<made, fixed>> ELSE <<fixed, made>>)

createTable ==
  /\ chain.phase = "building"
  /\ \E options \in OptionsPool : \E chainFirst \in BOOLEAN :
       chain' = [phase |-> "created", props |-> chain.props, trail |-> chain.trail,
                 table |-> things(chain.props, chainFirst), options |-> options,
                 ddl |-> create_table(things(chain.props, chainFirst), options)]
  /\ UNCHANGED notChain

TableNext ==
  \/ types_call
  \/ autoincrement
  \/ default
  \/ nullable
  \/ primaryKey
  \/ unique
  \/ createTable

TableSpec == ChainInit /\ [][TableNext]_vars

\* The definition of a column as the text of a create table is to have it.
definitionOf(col) ==
  render_ref(snakeCase(col.name)) \o <<" ">> \o TYPES_MAPPING(col.type)
  \o (IF flag(col, "primaryKey")
      THEN <<" ", "PRIMARY KEY ASC">>
           \o (IF flag(col, "autoincrement") THEN <<" ", "AUTOINCREMENT">> ELSE <<>>)
      ELSE (IF flag(col, "nullable") THEN <<>> ELSE <<" ", "NOT NULL">>)
           \o (IF flag(col, "unique") THEN <<" ", "UNIQUE">> ELSE <<>>))

\* C22: ddl.createTable returns no params and the text
\* CREATE [UNLOGGED ]TABLE [IF NOT EXISTS ]"name" (defs); with one definition
\* per column in declaration order: the quoted snake_case name and the native
\* type, then PRIMARY KEY ASC and AUTOINCREMENT (when set) for a primary key
\* and nothing further, otherwise NOT NULL unless nullable and UNIQUE when
\* unique.
C22_CreateTableText ==
  chain.phase = "created" =>
    LET cols == chain.table.columns
    IN /\ chain.ddl.params = <<>>
       /\ chain.ddl.sql
            = <<"CREATE ">>
              \o (IF has("unlogged", chain.options) THEN <<"UNLOGGED ">> ELSE <<>>)
              \o <<"TABLE ">>
              \o (IF has("ifNotExists", chain.options) THEN <<"IF NOT EXISTS ">> ELSE <<>>)
              \o <<"\"", "things", "\"", " (">>
              \o join([i \in 1..Len(cols) |-> definitionOf(cols[i][2])], <<", ">>)
              \o <<");">>

-----------------------------------------------------------------------------
(* Statements with a where: an expression is written, wrapped by the        *)
(* helpers, and carried by a delete or a select that is compiled.           *)

\* The expressions a where starts from.
WhereStarts == ExprPool \cup { Num(2), Bool(FALSE), Str(<<>>) }

\* The aliases a delete gives to backups.
DeleteAliases == { <<"b1">>, <<"old">> }

\* db.delete({ table, alias, where }) up to the prepared text and params;
\* where is the tree or is left out.
BunSQLite_delete ==
  /\ ex.phase = "written"
  /\ \E alias \in DeleteAliases : \E cond \in {ex.tree, Undefined} :
       LET op == [table |-> backups.name, alias |-> alias, where |-> cond]
       IN ex' = [phase |-> "deleted", tree |-> ex.tree, depth |-> ex.depth,
                 op |-> op, ddl |-> ddl_delete(op)]
  /\ UNCHANGED notExpr

DeleteInit ==
  /\ selectIdle
  /\ txIdle
  /\ logIdle
  /\ insertIdle
  /\ codecIdle
  /\ builderIdle
  /\ compileIdle
  /\ chainIdle
  /\ \E e \in WhereStarts : ex = [phase |-> "written", tree |-> e, depth |-> 0]

DeleteNext ==
  \/ wrap_not
  \/ wrap_and
  \/ wrap_or
  \/ wrap_binaryOp
  \/ compile
  \/ BunSQLite_delete

DeleteSpec == DeleteInit /\ [][DeleteNext]_vars

\* Every node of the tree is one of the closed variants.
wellFormed(e) == \A n \in nodes(e) : isVariant(n)

\* C23: ddl.delete compiles to DELETE FROM "name" AS "alias", then
\* WHERE <rendered where> when a where is set, then ; and its params are
\* exactly the params of the where in left-to-right order, none when there
\* is no where; deleting from backups AS b1 where id = 2 gives
\* DELETE FROM "backups" AS "b1" WHERE ("b1"."id" = ?); with params [2].
C23_DeleteText ==
  (/\ ex.phase = "deleted"
   /\ ex.op.where # Undefined => wellFormed(ex.op.where)) =>
    LET head == <<"DELETE FROM ", "\"", "backups", "\"", " AS ", "\"">> \o ex.op.alias \o <<"\"">>
        rendered == render_expr_any(ex.op.where)
    IN /\ ex.op.where = Undefined =>
            /\ ex.ddl.sql = head \o <<";">>
            /\ ex.ddl.params = <<>>
       /\ ex.op.where # Undefined =>
            /\ ex.ddl.sql = head \o <<" WHERE ">> \o textOf(rendered) \o <<";">>
            /\ ex.ddl.params = rendered.params
       /\ (ex.op.where = expr_eq(id(b1), Num(2)) /\ ex.op.alias = <<"b1">>) =>
            /\ ex.ddl.sql = <<"DELETE FROM ", "\"", "backups", "\"", " AS ", "\"", "b1", "\"",
                              " WHERE ", "(", "\"", "b1", "\"", ".", "\"", "id", "\"", " ", "=", " ", "?", ")", ";">>
            /\ ex.ddl.params = <<Num(2)>>

\* part occurs in text as a run of consecutive atoms.
occursIn(part, text) ==
  \E i \in 0..(Len(text) - Len(part)) : SubSeq(text, i + 1, i + Len(part)) = part

\* from(b1).limit(n).offset(n + 1), as a statement: inWhere without the where
withoutWhere(n) ==
  toSelectStatement(QueryBuilder_offset(QueryBuilder_limit(from(b1), Num(n)), Num(n + 1)))

\* C25: a select or a delete whose where is not undefined, whatever the
\* variant of the expression (a bare literal false, 0, '' or null included),
\* compiles to a text that has a WHERE clause rendering the expression and to
\* params that include the expression's params; it never compiles to the SQL
\* of the same statement without the where.
C25_WhereAlwaysRendered ==
  /\ (ex.phase = "deleted" /\ ex.op.where # Undefined /\ wellFormed(ex.op.where)) =>
       LET rendered == render_expr_any(ex.op.where)
       IN /\ occursIn(<<" WHERE ">> \o textOf(rendered), ex.ddl.sql)
          /\ ex.ddl.params = rendered.params
          /\ ex.ddl.sql # ddl_delete([ex.op EXCEPT !.where = Undefined]).sql
  /\ (ex.phase = "compiled" /\ wellFormed(ex.tree)) =>
       LET rendered == render_expr_any(ex.tree)
       IN /\ occursIn(<<" WHERE ">> \o textOf(rendered), ex.where.sql)
          /\ ex.where.params = rendered.params \o <<Num(2), Num(3)>>
          /\ ex.where.sql # ddl_select(withoutWhere(2)).sql

-----------------------------------------------------------------------------
(* Tables as objects: a table and its columns are cells of the heap, and    *)
(* table.as(alias) builds an aliased table from them.                       *)

MaxTables == 4

\* The tables that are defined: their name and the builders of their shape.
ShapePool ==
  { [tname |-> <<"backups">>,
     shape |-> << << <<"id">>, ColumnPropsBuilder_primaryKey(ColumnPropsBuilder_autoincrement(types_integer)) >>,
                  << <<"parent", "I", "d">>, ColumnPropsBuilder_nullable(types_integer) >> >>],
    [tname |-> <<"schema_migrations">>,
     shape |-> << << <<"id">>, ColumnPropsBuilder_primaryKey(types_string(Num(36))) >>,
                  << <<"timestamp">>, types_datetime >> >>] }

\* The aliases given to as(): the empty string and a table's own name too.
AliasPool == { <<"b1">>, <<"b2">>, <<>>, <<"backups">> }

\* The heap after the objects of the list are allocated one after another.
RECURSIVE allocAll(_, _)
allocAll(h, cells) ==
  IF cells = <<>> THEN h ELSE allocAll(alloc(h, cells[1]), SubSeq(cells, 2, Len(cells)))

\* defineTable: every column is a new object { ...props, name, table }, the
\* table is a new object that refers to them; the table is the last cell.
ref_defineTable(h, tname, shape) ==
  LET h1 == allocAll(h, [i \in 1..Len(shape) |->
                           [kind |-> "column",
                            props |-> spread(shape[i][2], [name |-> shape[i][1], table |-> tname])]])
  IN alloc(h1, [kind |-> "table", name |-> tname,
                columns |-> [i \in 1..Len(shape) |-> <<shape[i][1], Ref(Len(h) + i)>>]])

\* as() writing the alias into the table's own column objects.
ref_aliasedTableFn_inPlace(h, t, alias) ==
  LET this == h[t.ref]
      written == [n \in 1..Len(h) |->
                    IF \E i \in 1..Len(this.columns) : this.columns[i][2] = Ref(n)
                    THEN [h[n] EXCEPT !.props = spread(h[n].props, [table |-> alias])]
                    ELSE h[n]]
  IN alloc(written, [kind |-> "aliased", TABLE_NAME |-> this.name, TABLE_ALIAS |-> alias,
                     columns |-> this.columns])

\* table.as(alias): every column is a new object { ...col, table: alias },
\* the aliased table is a new object; it is the last cell.
ref_aliasedTableFn(h, t, alias) ==
  LET this == h[t.ref]
      h1 == allocAll(h, [i \in 1..Len(this.columns) |->
                           [kind |-> "column",
                            props |-> spread(h[this.columns[i][2].ref].props, [table |-> alias])]])
  IN alloc(h1, [kind |-> "aliased", TABLE_NAME |-> this.name, TABLE_ALIAS |-> alias,
                columns |-> [i \in 1..Len(this.columns) |-> <<this.columns[i][1], Ref(Len(h) + i)>>]])

\* The columns of a table or of an aliased table, their references followed.
columnsOf(h, t) ==
  [i \in 1..Len(h[t.ref].columns) |-> <<h[t.ref].columns[i][1], h[h[t.ref].columns[i][2].ref].props>>]

\* table(name, shapeFn); what is kept of the call is the table and what it
\* was when defined.
table_define ==
  /\ Len(builders) < MaxTables
  /\ \E s \in ShapePool :
       LET h1 == ref_defineTable(heap, s.tname, s.shape)
       IN /\ heap' = h1
          /\ builders' = Append(builders, [call |-> "table", result |-> last(h1),
                                           name |-> s.tname, columns |-> columnsOf(h1, last(h1))])
  /\ UNCHANGED <<ran, notBuilder>>

\* t.as(alias); what is kept of the call is the table, the alias, the result
\* and what the result was when returned.
table_as ==
  /\ Len(builders) < MaxTables
  /\ \E n \in 1..Len(builders) : \E alias \in AliasPool :
       /\ builders[n].call = "table"
       /\ LET h1 == ref_aliasedTableFn(heap, builders[n].result, alias)
          IN /\ heap' = h1
             /\ builders' = Append(builders, [call |-> "as", of |-> n, alias |-> alias,
                                              result |-> last(h1),
                                              columns |-> columnsOf(h1, last(h1))])
  /\ UNCHANGED <<ran, notBuilder>>

AliasInit ==
  /\ selectIdle
  /\ txIdle
  /\ logIdle
  /\ insertIdle
  /\ codecIdle
  /\ builderIdle
  /\ compileIdle
  /\ exprIdle
  /\ chainIdle

AliasNext ==
  \/ table_define
  \/ table_as

AliasSpec == AliasInit /\ [][AliasNext]_vars

\* col is the column orig but for its table field, which is alias.
aliasedFrom(col, orig, alias) ==
  /\ DOMAIN col = DOMAIN orig
  /\ col.table = alias
  /\ \A f \in DOMAIN orig \ {"table"} : col[f] = orig[f]

\* C24: table.as(a) always succeeds and yields, for every column of the
\* table, a column identical but for its table field, which is a, and keeps
\* the table's declared name; the table and its columns are left unchanged,
\* and aliasing a table twice with the same alias yields structurally
\* identical aliased tables.
C24_AliasingIsStructural ==
  \A n \in 1..Len(builders) :
    LET c == builders[n]
    IN /\ c.call = "table" =>
            /\ heap[c.result.ref].name = c.name
            /\ columnsOf(heap, c.result) = c.columns
       /\ c.call = "as" =>
            LET t == builders[c.of]
                aliased == heap[c.result.ref]
                cols == columnsOf(heap, c.result)
            IN /\ aliased.kind = "aliased"
               /\ aliased.TABLE_NAME = t.name
               /\ aliased.TABLE_ALIAS = c.alias
               /\ cols = c.columns
               /\ Len(cols) = Len(t.columns)
               /\ \A i \in 1..Len(cols) :
                    /\ cols[i][1] = t.columns[i][1]
                    /\ aliasedFrom(cols[i][2], t.columns[i][2], c.alias)
               /\ \A k \in 1..Len(builders) :
                    (builders[k].call = "as" /\ builders[k].of = c.of /\ builders[k].alias = c.alias) =>
                      /\ heap[builders[k].result.ref].TABLE_NAME = aliased.TABLE_NAME
                      /\ heap[builders[k].result.ref].TABLE_ALIAS = aliased.TABLE_ALIAS
                      /\ columnsOf(heap, builders[k].result) = cols

\* A table was aliased twice with one alias and once with another.
C24_Witness ==
  \E i, j, k \in 1..Len(builders) :
    /\ i < j
    /\ j < k
    /\ builders[i].call = "as"
    /\ builders[j].call = "as"
    /\ builders[k].call = "as"
    /\ builders[i].of = builders[j].of
    /\ builders[j].of = builders[k].of
    /\ builders[i].alias = builders[k].alias
    /\ builders[i].alias # builders[j].alias

-----------------------------------------------------------------------------
(* Joins under any alias: the select builder, with joined tables whose      *)
(* alias may be the alias of the table the query started from.              *)

\* The aliased tables that are joined: migrations.as('b1') has the alias of
\* the table of from().
AliasedJoinTables == JoinTables \cup { aliasedTableFn(migrations, <<"b1">>) }

\* query.innerJoin(table, on) for any of the aliased tables
innerJoin_aliased ==
  /\ out = NotRun
  /\ Len(IF query.joins = Undefined THEN <<>> ELSE query.joins.v) < MaxJoins
  /\ \E t \in AliasedJoinTables :
       query' = QueryBuilder_innerJoin(query, t, expr_eq(id(t), parentId(b1)))
  /\ UNCHANGED <<wheres, stmt, out>>
  /\ UNCHANGED notSelect

RegistryNext ==
  \/ innerJoin_aliased
  \/ limit
  \/ offset
  \/ orderBy
  \/ select
  \/ where
  \/ all

RegistrySpec == Init /\ [][RegistryNext]_vars

\* C26: for a query started with from(backups.as('b1')), after any innerJoin,
\* where, select, orderBy, limit and offset calls, with any aliased tables
\* joined, the statement's from is b1, registry[b1] is backups, every
\* join's alias maps in the registry to the join's own table name, and the
\* compiled FROM clause targets backups.
C26_FromTargetsItsTable ==
  LET op == toSelectStatement(query)
      joins == IF op.joins = Undefined THEN <<>> ELSE op.joins.v
  IN /\ op.from = <<"b1">>
     /\ op.registry[op.from] = <<"backups">>
     /\ \A i \in 1..Len(joins) : op.registry[joins[i].alias] = joins[i].table
     /\ (out # NotRun /\ ~threw(out)) =>
          occursIn(<<" FROM ", "\"", "backups", "\"", " AS ", "\"", "b1", "\"">>, out.sql)

-----------------------------------------------------------------------------
(* Migrations (defineMigrations): migrate(db) is called again and again on  *)
(* one database with one set of migrations.  A migration id is a string,    *)
(* given as the sequence of its code units; the clock is what new Date()    *)
(* returns, in milliseconds.                                                *)

MaxRuns == 2
MaxClock == 2

\* The code units of the ids.
Units == 1..3

\* The ids: the strings of one or two code units.
IdPool == { <<u>> : u \in Units } \cup { <<1, u>> : u \in Units }

\* a <= b on strings
RECURSIVE string_lte(_, _)
string_lte(a, b) ==
  IF a = <<>> THEN TRUE
  ELSE IF b = <<>> THEN FALSE
  ELSE IF a[1] # b[1] THEN a[1] < b[1]
  ELSE string_lte(Tail(a), Tail(b))

\* The objects given to defineMigrations, as the list of their keys in
\* declaration order (Object.entries).
MigsPool ==
  { <<a>> : a \in IdPool } \cup ({ <<a, b>> : a, b \in IdPool } \ { <<a, a>> : a \in IdPool })

\* The rows that from(migrations.as('m')).orderBy(desc(m.timestamp)).one(db)
\* may return the id of: those with the latest timestamp; '' when the table
\* is empty.
mostRecentIds(rows) ==
  IF rows = {} THEN { <<>> }
  ELSE { r.id : r \in { x \in rows : \A y \in rows : y.timestamp <= x.timestamp } }

\* migrate(db) up to the loop: the table is created if it does not exist and
\* the most recent id is read.
migrate_call ==
  /\ work.status \in {"idle", "resolved", "rejected"}
  /\ work.run < MaxRuns
  /\ \E migs \in (IF work.status = "idle" THEN MigsPool ELSE {work.migs}) :
     \E mostRecentId \in mostRecentIds(conn.rows) :
       work' = [status |-> "running", migs |-> migs, i |-> 1, mostRecentId |-> mostRecentId,
                run |-> work.run + 1, completed |-> work.completed, clock |-> work.clock]
  /\ conn' = [conn EXCEPT !.created = TRUE]
  /\ UNCHANGED <<tasks, executed, txPromise>>
  /\ UNCHANGED notTx

\* One turn of the loop: the id is skipped, or the migration runs in a
\* transaction and its row is inserted; a migration that throws and an
\* insert of an id that is there already (id is the primary key) reject
\* migrate(db).
migrate_loop ==
  /\ work.status = "running"
  /\ work.i <= Len(work.migs)
  /\ LET mid == work.migs[work.i]
     IN IF string_lte(mid, work.mostRecentId)
        THEN /\ work' = [work EXCEPT !.i = @ + 1]
             /\ UNCHANGED <<conn, executed>>
        ELSE \E throws \in BOOLEAN : \E now \in {work.clock, work.clock + 1} :
               /\ now <= MaxClock
               /\ LET conflict == \E r \in conn.rows : r.id = mid
                      inserted == ~throws /\ ~conflict
                  IN /\ executed' = Append(executed, [run |-> work.run, id |-> mid, threw |-> throws,
                                                      inserted |-> inserted,
                                                      completed |-> work.completed])
                     /\ conn' = IF inserted
                                THEN [conn EXCEPT !.rows = @ \cup {[id |-> mid, timestamp |-> now]}]
                                ELSE conn
                     /\ work' = IF inserted
                                THEN [work EXCEPT !.i = @ + 1, !.clock = now]
                                ELSE [work EXCEPT !.status = "rejected", !.clock = now]
  /\ UNCHANGED <<tasks, txPromise>>
  /\ UNCHANGED notTx

\* The loop is over: migrate(db) resolves.
migrate_return ==
  /\ work.status = "running"
  /\ work.i > Len(work.migs)
  /\ work' = [work EXCEPT !.status = "resolved", !.completed = @ + 1]
  /\ UNCHANGED <<conn, tasks, executed, txPromise>>
  /\ UNCHANGED notTx

MigrateInit ==
  /\ selectIdle
  /\ logIdle
  /\ insertIdle
  /\ codecIdle
  /\ builderIdle
  /\ compileIdle
  /\ exprIdle
  /\ chainIdle
  /\ conn = [created |-> FALSE, rows |-> {}]
  /\ work = [status |-> "idle", migs |-> <<>>, i |-> 1, mostRecentId |-> <<>>,
             run |-> 0, completed |-> 0, clock |-> 0]
  /\ tasks = <<>>
  /\ executed = <<>>
  /\ txPromise = "none"

MigrateNext ==
  \/ migrate_call
  \/ migrate_loop
  \/ migrate_return

MigrateSpec == MigrateInit /\ [][MigrateNext]_vars

\* C27: once migrate(db) has completed successfully, a further migrate(db)
\* with the same set executes no migration function and inserts no
\* schema_migrations row, whatever the ids, their declaration order and the
\* recorded timestamps; and within one run, when a migration throws, its id
\* is not recorded and no later migration is executed.
C27_MigrationsRunOnce ==
  \A n \in 1..Len(executed) :
    /\ executed[n].completed = 0
    /\ executed[n].threw =>
         /\ ~executed[n].inserted
         /\ \A k \in (n + 1)..Len(executed) : executed[k].run # executed[n].run

-----------------------------------------------------------------------------
(* The type guard is.is: an expression is built by the helpers, expr.is and *)
(* expr.isNot among them, and handed to the guard.                          *)

is_is(e) == isPlainObject(e) /\ has("is", e)

\* The right-hand sides of expr.is and expr.isNot.
IsPool == { Bool(TRUE), Bool(FALSE), Null }

\* expr.is(tree, rhs)
wrap_is ==
  /\ ex.phase = "written"
  /\ ex.depth < MaxDepth
  /\ \E rhs \in IsPool : ex' = [ex EXCEPT !.tree = expr_is(ex.tree, rhs), !.depth = ex.depth + 1]
  /\ UNCHANGED notExpr

\* expr.isNot(tree, rhs)
wrap_isNot ==
  /\ ex.phase = "written"
  /\ ex.depth < MaxDepth
  /\ \E rhs \in IsPool : ex' = [ex EXCEPT !.tree = expr_isNot(ex.tree, rhs), !.depth = ex.depth + 1]
  /\ UNCHANGED notExpr

\* is.is(tree)
guard_is ==
  /\ ex.phase = "written"
  /\ ex' = [phase |-> "guarded", tree |-> ex.tree, depth |-> ex.depth, is |-> is_is(ex.tree)]
  /\ UNCHANGED notExpr

GuardNext ==
  \/ wrap_not
  \/ wrap_and
  \/ wrap_or
  \/ wrap_binaryOp
  \/ wrap_is
  \/ wrap_isNot
  \/ guard_is

GuardSpec == ExprInit /\ [][GuardNext]_vars

\* C28: is.is returns true for every IS expression, that is for every node
\* built by expr.is(lhs, rhs) with rhs true, false or null, and false for the
\* nodes of every other variant.
C28_IsGuard ==
  ex.phase = "guarded" =>
    (ex.is <=> \E lhs \in nodes(ex.tree) : \E rhs \in IsPool : ex.tree = expr_is(lhs, rhs))

-----------------------------------------------------------------------------
(* Primary key and unique on one column (the column definition model).      *)

\* C29: a column is never both primaryKey and unique, whatever the order of
\* the builder calls: unique() on a primary-key column throws and
\* primaryKey() on a unique column throws, so no chain of successful calls
\* yields props with both flags set.
C29_PrimaryKeyNeverUnique ==
  chain.phase \in {"building", "threw"} =>
    LET call == chain.trail[Len(chain.trail)]
    IN /\ (call.fn = "unique" /\ called_before("primaryKey")) => chain.phase = "threw"
       /\ (call.fn = "primaryKey" /\ called_before("unique")) => chain.phase = "threw"
       /\ chain.phase = "building" =>
            ~(flag(chain.props, "primaryKey") /\ flag(chain.props, "unique"))

-----------------------------------------------------------------------------
(* Sequences of builder calls: the callbacks read their columns from the    *)
(* registry they are handed, and every call is recorded in order.           *)

MaxSequence == 4

\* What the actions of this model leave unchanged.
notSequence == <<wheres, stmt, arrays, txVars, logVars, insertVars, codec, builderVars, ex, chain>>

\* r[alias].id in a callback handed the registry r; reading a property of
\* undefined throws.
column_id(registry, alias) ==
  IF alias \in DOMAIN registry THEN id(registry[alias])
  ELSE Throw("TypeError: undefined is not an object")

\* What a callback returns: a callback is given by its kind and by the alias
\* it reads.
callback(cb, registry) ==
  LET col == column_id(registry, cb.alias)
  IN IF threw(col) THEN col
     ELSE CASE cb.kind = "eq" -> expr_eq(col, Num(1))
            [] cb.kind = "and" -> expr_and(<<expr_gt(col, Num(2)), expr_is(col, Null)>>)
            [] cb.kind = "false" -> Bool(FALSE)
            [] cb.kind = "on" -> expr_eq(col, id(registry[<<"b1">>]))
            [] cb.kind = "desc" -> Arr(<<expr_desc(col)>>)
            [] cb.kind = "asc" -> Arr(<<expr_asc(col)>>)
            [] cb.kind = "one" -> << << <<"x">>, col >> >>

\* The builder that the call c on the builder q returns, or what it throws.
call(q, c) ==
  IF threw(q) THEN q
  ELSE CASE c.fn = "innerJoin" ->
              LET registry == (c.table.TABLE_ALIAS :> c.table) @@ q.registry
              IN IF threw(column_id(registry, c.cb.alias)) THEN column_id(registry, c.cb.alias)
                 ELSE QueryBuilder_innerJoin(q, c.table, callback(c.cb, registry))
         [] c.fn = "limit" -> QueryBuilder_limit(q, c.n)
         [] c.fn = "offset" -> QueryBuilder_offset(q, c.n)
         [] c.fn \in {"orderBy", "select", "where"} ->
              IF threw(column_id(q.registry, c.cb.alias)) THEN column_id(q.registry, c.cb.alias)
              ELSE CASE c.fn = "orderBy" -> QueryBuilder_orderBy(q, callback(c.cb, q.registry))
                     [] c.fn = "select" -> QueryBuilder_select(q, callback(c.cb, q.registry))
                     [] c.fn = "where" -> QueryBuilder_where(q, callback(c.cb, q.registry))

\* The calls that are made.
JoinCalls ==
  { [fn |-> "innerJoin", table |-> t, cb |-> [kind |-> "on", alias |-> t.TABLE_ALIAS]] :
      t \in { b2, aliasedTableFn(migrations, <<"b1">>) } }
LimitCalls == { [fn |-> "limit", n |-> Num(n)] : n \in {2, 5} }
OffsetCalls == { [fn |-> "offset", n |-> Num(n)] : n \in {0, 3} }
OrderByCalls ==
  { [fn |-> "orderBy", cb |-> [kind |-> "desc", alias |-> <<"b1">>]],
    [fn |-> "orderBy", cb |-> [kind |-> "asc", alias |-> <<"b2">>]] }
SelectCalls == { [fn |-> "select", cb |-> [kind |-> "one", alias |-> a]] : a \in { <<"b1">>, <<"b2">> } }
WhereCalls ==
  { [fn |-> "where", cb |-> [kind |-> "eq", alias |-> <<"b1">>]],
    [fn |-> "where", cb |-> [kind |-> "eq", alias |-> <<"b2">>]],
    [fn |-> "where", cb |-> [kind |-> "and", alias |-> <<"b1">>]],
    [fn |-> "where", cb |-> [kind |-> "false", alias |-> <<"b1">>]] }

\* query.innerJoin(table, on), recorded
call_innerJoin ==
  /\ out = NotRun
  /\ ~threw(query)
  /\ Len(calls) < MaxSequence
  /\ \E c \in JoinCalls :
       /\ query' = call(query, c)
       /\ calls' = Append(calls, c)
  /\ UNCHANGED out
  /\ UNCHANGED notSequence

\* query.limit(n), recorded
call_limit ==
  /\ out = NotRun
  /\ ~threw(query)
  /\ Len(calls) < MaxSequence
  /\ \E c \in LimitCalls :
       /\ query' = call(query, c)
       /\ calls' = Append(calls, c)
  /\ UNCHANGED out
  /\ UNCHANGED notSequence

\* query.offset(n), recorded
call_offset ==
  /\ out = NotRun
  /\ ~threw(query)
  /\ Len(calls) < MaxSequence
  /\ \E c \in OffsetCalls :
       /\ query' = call(query, c)
       /\ calls' = Append(calls, c)
  /\ UNCHANGED out
  /\ UNCHANGED notSequence

\* query.orderBy(fn), recorded
call_orderBy ==
  /\ out = NotRun
  /\ ~threw(query)
  /\ Len(calls) < MaxSequence
  /\ \E c \in OrderByCalls :
       /\ query' = call(query, c)
       /\ calls' = Append(calls, c)
  /\ UNCHANGED out
  /\ UNCHANGED notSequence

\* query.select(fn), recorded
call_select ==
  /\ out = NotRun
  /\ ~threw(query)
  /\ Len(calls) < MaxSequence
  /\ \E c \in SelectCalls :
       /\ query' = call(query, c)
       /\ calls' = Append(calls, c)
  /\ UNCHANGED out
  /\ UNCHANGED notSequence

\* query.where(fn), recorded
call_where ==
  /\ out = NotRun
  /\ ~threw(query)
  /\ Len(calls) < MaxSequence
  /\ \E c \in WhereCalls :
       /\ query' = call(query, c)
       /\ calls' = Append(calls, c)
  /\ UNCHANGED out
  /\ UNCHANGED notSequence

\* QueryBuilder.all -> BunSQLite.query -> ddl.select
call_all ==
  /\ out = NotRun
  /\ ~threw(query)
  /\ out' = ddl_select(toSelectStatement(query))
  /\ UNCHANGED <<query, calls>>
  /\ UNCHANGED notSequence

SequenceNext ==
  \/ call_innerJoin
  \/ call_limit
  \/ call_offset
  \/ call_orderBy
  \/ call_select
  \/ call_where
  \/ call_all

SequenceSpec == Init /\ [][SequenceNext]_vars

\* The builder after the calls of the list, made one after another.
RECURSIVE replay(_, _)
replay(q, list) == IF list = <<>> THEN q ELSE replay(call(q, Head(list)), Tail(list))

\* The calls of the list to one of the methods, in order.
callsTo(list, fns) == SelectSeq(list, LAMBDA c : c.fn \in fns)

\* The last call of the list to the method, if any.
lastTo(list, fn) ==
  LET those == callsTo(list, {fn})
  IN IF those = <<>> THEN <<>> ELSE <<those[Len(those)]>>

\* The calls that the result is said to depend on: the innerJoin calls and
\* the where calls in call order, then the last limit, offset, orderBy and
\* select.
essential(list) ==
  callsTo(list, {"innerJoin"}) \o callsTo(list, {"where"})
  \o lastTo(list, "limit") \o lastTo(list, "offset") \o lastTo(list, "orderBy") \o lastTo(list, "select")

====
